---- MODULE Spec2Model ----
(***************************************************************************)
(* Verification model of the nebula-nexus bulk ingestion core:             *)
(*   - build_month_ranges / process_month / main  (ingest_arxiv_monthly.py) *)
(*   - PaperRepository.upsert                     (src/repositories/paper.py)*)
(*   - BulkPaperIngestion                         (bulk_ingest_papers.py)   *)
(*   - RetryConfig / with_retry                   (src/utils/retry.py)      *)
(* Each subsystem has its own specification over the shared variables; the *)
(* variables of the subsystems a specification does not run stay idle.     *)
(***************************************************************************)
EXTENDS Integers, Sequences, FiniteSets, TLC

VARIABLES
    pc,             \* control position of the running program
    start_date,     \* --start argument, a YYYYMMDD string (as its digits)
    end_date,       \* --end argument, a YYYYMMDD string (as its digits)
    month_ranges,   \* list[MonthRange] returned by build_month_ranges
    \* ---- both ingestion scripts
    target_count,   \* --target
    batch_size,     \* --batch-size
    \* ---- ingest_arxiv_monthly.py: main and process_month
    initial_total,  \* repo.get_count() at run start
    fetched_total,  \* main: fetched_total
    stored_total,   \* main: stored_total
    idx,            \* main: 1-based index of the month being processed
    current_total,  \* process_month: the current_total argument
    stored_this_month,
    fetched_this_month,
    start_index,    \* process_month: pagination offset
    batch_limit,    \* process_month: max_results of the call in flight
    available,      \* source: records the provider holds in each window
    all_new,        \* source: TRUE when every fetched record is new to the store
    errors,         \* number of fetch_and_process_papers calls that raised
    fetch_log,      \* completed fetch_and_process_papers calls, in order
    \* ---- src/utils/retry.py: RetryConfig and with_retry
    max_attempts,   \* RetryConfig.max_attempts
    initial_delay,  \* RetryConfig.initial_delay, in tenths of a second
    max_delay,      \* RetryConfig.max_delay, in tenths of a second
    base_exp,       \* log2 of RetryConfig.exponential_base (a power of two)
    jitter,         \* RetryConfig.jitter
    retryable_exceptions, \* RetryConfig.retryable_exceptions: "all" or "network"
    attempt,        \* the attempt argument / the loop variable of the wrapper
    calls,          \* invocations of the wrapped function so far
    sleeps,         \* time.sleep / asyncio.sleep calls so far
    slept,          \* the delay of the latest sleep
    last_exception, \* wrapper: last_exception
    outcome,        \* how the wrapped call ended: running, returned or raised
    delay,          \* result of get_delay(attempt)
    delay_next,     \* result of get_delay(attempt + 1)
    \* ---- src/repositories/paper.py: the papers table and PaperRepository
    papers,         \* rows of the papers table
    upsert_log,     \* the store calls made so far, in order
    session,        \* the Session of the with block: active, or inactive after a failed flush
    \* ---- bulk_ingest_papers.py: BulkPaperIngestion.run_ingestion
    search_queries, \* per query, the PMIDs the provider's search returns
    query_idx,      \* position of the query loop (line 193)
    fetched_papers, \* the local "papers" of run_ingestion (line 203)
    batch_start,    \* i of the batch loop (line 216)
    paper_pos,      \* position of store_papers' loop in the batch (line 85)
    processed_pmids,\* self.processed_pmids
    stats,          \* self.stats
    current_count,  \* local current_count of run_ingestion
    papers_needed,  \* local papers_needed of run_ingestion
    fetch_calls,    \* the pubmed_client.fetch_papers calls made so far
    \* ---- airflow/dags/pubmed_ingestion/fetching.py: run_paper_ingestion_pipeline
    \* (its locals papers, the loop position and the counters are kept in
    \* fetched_papers, paper_pos and stats)
    efetch_response,\* the entries of the EFetch response the client parses
    \* ---- src/services/pubmed/client.py: PubMedClient and its callers
    now,            \* time.time(), in ticks
    rate_limit_delay,   \* settings.rate_limit_delay, in ticks
    _last_request_time, \* self._last_request_time
    coroutine,      \* per calling coroutine: where it is in its client call
    requests,        \* the HTTP requests issued so far, in order
    \* ---- store_papers / run_paper_ingestion_pipeline: the publication date
    published_date, \* paper.published_date, a string (as its tokens)
    pub_date, \* the local pub_date
    pub_date_elem, \* the PubDate element of the article _extract_pub_date is handed
    \* ---- src/services/pubmed/client.py: search_papers
    esearch_response, \* what the ESearch request ends in: the HTTP outcome and the document
    search_result, \* how search_papers ended: the list returned or the exception raised
    \* ---- src/services/pubmed/client.py: fetch_papers_by_ids
    pmids, \* the pmids argument
    fetch_i, \* the loop variable i (line 165)
    all_papers, \* the local all_papers
    efetch_requests, \* the _fetch_batch calls made so far: the ids sent and the papers parsed
    fetch_result, \* how fetch_papers_by_ids ended: the list returned or the exception raised
    \* ---- src/services/pubmed/client.py: download_pdf and _download_with_retry
    max_retries, \* settings.download_max_retries
    download_attempts, \* how each HTTP attempt of the download ended, in order
    retry_sleeps, \* the wait_time of each sleep before a retry, in units of download_retry_delay_base
    download_result, \* what _download_with_retry returned or raised
    pdf_result, \* what download_pdf returned
    pdf_file, \* the file at pdf_path: "absent", "partial" or "complete"
    force_download, \* the force_download argument of the download_pdf call
    download_calls, \* the number of download_pdf calls made for the paper
    \* ---- bulk_ingest_arxiv.py: the date windows of run_ingestion (dates are day ordinals)
    current_date, \* the local current_date of run_ingestion
    date_windows, \* the (from_date, to_date) pairs requested so far, in order
    \* ---- bulk_ingest_arxiv.py: the indexing loop of run_ingestion
    unindexed, \* the number of papers in the store the search index does not hold
    total_indexed, \* the local total_indexed of run_ingestion
    batch_num, \* the local batch_num of run_ingestion
    \* ---- src/services/cache/search_cache.py: SearchCacheClient behind with_retry(REDIS_RETRY)
    cache_entry, \* what Redis holds under the cache key: "none", "valid" or "corrupt"
    cache_op, \* the call in progress: the method and response.total
    cache_attempts, \* how often the wrapper has invoked the method's body in this call
    cache_calls \* the calls that are over: the method, the Redis replies, the attempts, the end

rangeVars == <<start_date, end_date, month_ranges>>

argVars == <<target_count, batch_size>>

pipeVars == <<initial_total, fetched_total, stored_total,
              idx, current_total, stored_this_month, fetched_this_month,
              start_index, batch_limit, available, all_new, errors, fetch_log>>

configVars == <<max_attempts, initial_delay, max_delay, base_exp, jitter,
                retryable_exceptions>>

retryVars == <<configVars, attempt, calls, sleeps, slept, last_exception, outcome,
               delay, delay_next>>

storeVars == <<papers, upsert_log, session>>

bulkVars == <<search_queries, query_idx, fetched_papers, batch_start, paper_pos,
              processed_pmids, stats, current_count, papers_needed, fetch_calls>>

dagVars == <<efetch_response>>

clientVars == <<now, rate_limit_delay, _last_request_time, coroutine, requests>>

dateVars == <<published_date, pub_date, pub_date_elem>>

searchVars == <<esearch_response, search_result>>

fetchVars == <<pmids, fetch_i, all_papers, efetch_requests, fetch_result>>

downloadVars == <<max_retries, download_attempts, retry_sleeps, download_result, pdf_result,
                  pdf_file, force_download, download_calls>>

windowVars == <<current_date, date_windows>>

indexVars == <<unindexed, total_indexed, batch_num>>

cacheVars == <<cache_entry, cache_op, cache_attempts, cache_calls>>

vars == <<pc, rangeVars, argVars, pipeVars, retryVars, storeVars, bulkVars, dagVars,
          clientVars,
          dateVars,
          searchVars,
          fetchVars,
          downloadVars,
          windowVars,
          indexVars,
          cacheVars>>

\* Python's None
None == [kind |-> "None"]

\* the variables of the planner while another subsystem runs
RangesIdle == start_date = 0 /\ end_date = 0 /\ month_ranges = <<>>

\* the command line arguments while no ingestion script runs
ArgIdle == target_count = 0 /\ batch_size = 0

\* the variables of main / process_month while another subsystem runs
PipeIdle ==
    /\ initial_total = 0
    /\ fetched_total = 0 /\ stored_total = 0 /\ idx = 0
    /\ current_total = 0 /\ stored_this_month = 0 /\ fetched_this_month = 0
    /\ start_index = 0 /\ batch_limit = 0
    /\ available = <<>> /\ all_new = FALSE /\ errors = 0 /\ fetch_log = <<>>

\* the variables of the retry utility while another subsystem runs
RetryIdle ==
    /\ max_attempts = 0 /\ initial_delay = 0 /\ max_delay = 0 /\ base_exp = 0
    /\ jitter = FALSE /\ retryable_exceptions = "all"
    /\ attempt = 0 /\ calls = 0 /\ sleeps = 0 /\ slept = None
    /\ last_exception = None /\ outcome = None /\ delay = None /\ delay_next = None

\* the store while another subsystem runs
StoreIdle == papers = {} /\ upsert_log = <<>> /\ session = "active"

\* BulkPaperIngestion while another subsystem runs
BulkIdle ==
    /\ search_queries = <<>> /\ query_idx = 0 /\ fetched_papers = <<>>
    /\ batch_start = 0 /\ paper_pos = 0 /\ processed_pmids = {}
    /\ stats = <<>> /\ current_count = 0 /\ papers_needed = 0
    /\ fetch_calls = <<>>

\* run_paper_ingestion_pipeline while another subsystem runs
DagIdle == efetch_response = <<>>

\* self._last_request_time = None (line 23)
NoTime == -1

\* the client while another subsystem runs
ClientIdle ==
    /\ now = 0 /\ rate_limit_delay = 0 /\ _last_request_time = NoTime
    /\ coroutine = <<>> /\ requests = <<>>

\* pub_date_elem is None: the article has no PubDate element
NoPubDate ==
    [is_none |-> TRUE, Year |-> "absent", Month |-> "absent", Day |-> "absent",
     MedlineDate |-> [found |-> FALSE, text |-> << >>]]

\* the date conversion while another subsystem runs
DateIdle ==
    published_date = <<>> /\ pub_date = None /\ pub_date_elem = NoPubDate

\* search_papers while another subsystem runs
SearchIdle ==
    esearch_response = <<>> /\ search_result = <<>>

\* fetch_papers_by_ids while another subsystem runs
FetchIdle ==
    /\ pmids = <<>> /\ fetch_i = 0 /\ all_papers = <<>> /\ efetch_requests = <<>>
    /\ fetch_result = None

\* the download while another subsystem runs
DownloadIdle ==
    /\ max_retries = 0 /\ download_attempts = <<>> /\ retry_sleeps = <<>>
    /\ download_result = "" /\ pdf_result = ""
    /\ pdf_file = "absent" /\ force_download = FALSE /\ download_calls = 0

\* the date windows of bulk_ingest_arxiv.py before a run
WindowIdle ==
    current_date = 0 /\ date_windows = <<>>

\* the indexing loop of bulk_ingest_arxiv.py while another subsystem runs
IndexIdle ==
    unindexed = 0 /\ total_indexed = 0 /\ batch_num = 0

\* the search cache while another subsystem runs
CacheIdle ==
    /\ cache_entry = "none" /\ cache_op = [name |-> "", total |-> 0]
    /\ cache_attempts = 0 /\ cache_calls = <<>>

\* subsystem s starts with every variable it does not use idle
IdleOutside(s) ==
    /\ IF s \in {"ranges", "pipe", "windows", "arxiv"} THEN TRUE ELSE RangesIdle
    /\ IF s \in {"pipe", "bulk", "arxiv"} THEN TRUE ELSE ArgIdle
    /\ IF s \in {"store", "bulk", "dag"} THEN TRUE ELSE StoreIdle
    /\ IF s \in {"bulk", "dag"} THEN TRUE ELSE BulkIdle
    /\ IF s = "dag" THEN TRUE ELSE DagIdle
    /\ IF s = "client" THEN TRUE ELSE ClientIdle
    /\ IF s = "cache" THEN TRUE ELSE CacheIdle
    /\ IF s = "arxiv" THEN TRUE ELSE IndexIdle
    /\ IF s = "windows" THEN TRUE ELSE WindowIdle
    /\ IF s = "download" THEN TRUE ELSE DownloadIdle
    /\ IF s = "efetch" THEN TRUE ELSE FetchIdle
    /\ IF s = "esearch" THEN TRUE ELSE SearchIdle
    /\ IF s = "dates" THEN TRUE ELSE DateIdle
    /\ IF s \in {"pipe", "arxiv"} THEN TRUE ELSE PipeIdle
    /\ IF s \in {"retry"} THEN TRUE ELSE RetryIdle

\* a step of subsystem s leaves every variable it does not use alone
Outside(s) ==
    /\ IF s \in {"ranges", "pipe", "windows", "arxiv"} THEN TRUE ELSE UNCHANGED rangeVars
    /\ IF s \in {"pipe", "bulk", "arxiv"} THEN TRUE ELSE UNCHANGED argVars
    /\ IF s \in {"store", "bulk", "dag"} THEN TRUE ELSE UNCHANGED storeVars
    /\ IF s \in {"bulk", "dag"} THEN TRUE ELSE UNCHANGED bulkVars
    /\ IF s = "dag" THEN TRUE ELSE UNCHANGED dagVars
    /\ IF s = "client" THEN TRUE ELSE UNCHANGED clientVars
    /\ IF s = "cache" THEN TRUE ELSE UNCHANGED cacheVars
    /\ IF s = "arxiv" THEN TRUE ELSE UNCHANGED indexVars
    /\ IF s = "windows" THEN TRUE ELSE UNCHANGED windowVars
    /\ IF s = "download" THEN TRUE ELSE UNCHANGED downloadVars
    /\ IF s = "efetch" THEN TRUE ELSE UNCHANGED fetchVars
    /\ IF s = "esearch" THEN TRUE ELSE UNCHANGED searchVars
    /\ IF s = "dates" THEN TRUE ELSE UNCHANGED dateVars
    /\ IF s \in {"pipe", "arxiv"} THEN TRUE ELSE UNCHANGED pipeVars
    /\ IF s \in {"retry"} THEN TRUE ELSE UNCHANGED retryVars

----------------------------------------------------------------------------
(* Bounds and program constants                                            *)

\* first calendar year of the enumerated dates: the default of --start
FirstYear == 2023
\* number of calendar years the enumerated dates span (2024 is a leap year)
NumYears == 2
\* largest --target of the enumerated small runs
MaxTarget == 4
\* largest --batch-size of the enumerated small runs
MaxBatch == 2
\* largest stored count found at run start
MaxInitial == 1
\* largest number of records a window of a small run holds
MaxAvail == 4
\* fetch_and_process_papers raises at most this often in one run
MaxErrors == 1
\* the worked example of the specification: target 250, batch size 100
ExampleTarget == 250
ExampleBatch == 100
\* random.random() is drawn from the grid k / RandomSteps, 0 <= k < RandomSteps
RandomSteps == 4
\* largest max_attempts of the enumerated small configurations
MaxAttempts == 3
\* exponential_base ranges over 2^0 .. 2^MaxBaseExp
MaxBaseExp == 2
\* get_delay is called on attempts 0 .. MaxAttemptArg and at the float range's edge
MaxAttemptArg == 5
\* sys.float_info.max_exp: x ** n raises OverflowError from 2.0 ** 1024 on
FloatMaxExp == 1024
\* number of store calls made on one store
MaxUpserts == 3
\* largest number of upsert calls with records of either type
MaxLookups == 2
\* a run is started again while the store has seen at most this many upserts
MaxRestartLog == 2
\* largest number of PMIDs the provider's search returns for one query
MaxResults == 2
\* largest number of entries of an enumerated EFetch response
MaxEntries == 3
\* the worked example of the specification: a response of 10 entries
ExampleEntries == 10
\* the clock is followed for this many ticks
MaxTime == 5
\* largest rate_limit_delay, in ticks
MaxRateDelay == 2
\* number of requests followed on one client
MaxRequests == 3
\* longest publication date string, in tokens ("2024 Mar 15" has five)
MaxDateTokens == 5
\* largest number of Id elements in an ESearch response
MaxIds == 3
\* batch_size of fetch_papers_by_ids: the ids one EFetch request carries
EfetchBatchSize == 200
\* longest list of identifiers handed to fetch_papers_by_ids
MaxPmidCount == 401
\* largest download_max_retries of the enumerated settings
MaxRetries == 3
\* number of 30-day windows of the enumerated runs of bulk_ingest_arxiv.py
ArxivWindows == 2
\* timedelta(days=365 * 5): the days run_ingestion of bulk_ingest_arxiv.py goes back
RangeDays == 1825
\* timedelta(days=30): the length of one window of bulk_ingest_arxiv.py
WindowDays == 30
\* number of days taken for datetime.now() in the enumerated runs
MaxToday == 3
\* number of download_pdf calls followed for one paper
MaxDownloadCalls == 2
\* REDIS_RETRY.max_attempts
RedisMaxAttempts == 3
\* number of cache calls followed
MaxCacheCalls == 2

----------------------------------------------------------------------------
(* Calendar arithmetic: datetime, strptime/strftime("%Y%m%d"),             *)
(* relativedelta(months=1) and timedelta(days=1)                           *)

IsLeap(y) == (y % 4 = 0) /\ ((y % 100 # 0) \/ (y % 400 = 0))

DaysInMonth(y, m) ==
    IF m \in {4, 6, 9, 11} THEN 30
    ELSE IF m = 2 THEN (IF IsLeap(y) THEN 29 ELSE 28)
    ELSE 31

\* datetime.strptime(s, "%Y%m%d"): split the eight digits into fields
strptime(s) == [y |-> s \div 10000, m |-> (s \div 100) % 100, d |-> s % 100]

\* datetime.strftime("%Y%m%d"): MonthRange.format_start / format_end
strftime(dt) == dt.y * 10000 + dt.m * 100 + dt.d

\* datetime.replace(day=1)
ReplaceDay1(dt) == [dt EXCEPT !.d = 1]

\* datetime ordering (a <= b): fields compared most significant first
DateLE(a, b) ==
    \/ a.y < b.y
    \/ a.y = b.y /\ a.m < b.m
    \/ a.y = b.y /\ a.m = b.m /\ a.d <= b.d

DateMin(a, b) == IF DateLE(b, a) THEN b ELSE a

\* dt + relativedelta(months=1): next month, day clipped to that month's length
AddMonth(dt) ==
    LET ny == IF dt.m = 12 THEN dt.y + 1 ELSE dt.y
        nm == IF dt.m = 12 THEN 1 ELSE dt.m + 1
        last == DaysInMonth(ny, nm)
    IN  [y |-> ny, m |-> nm, d |-> IF dt.d > last THEN last ELSE dt.d]

\* dt - timedelta(days=1)
SubDay(dt) ==
    IF dt.d > 1 THEN [dt EXCEPT !.d = dt.d - 1]
    ELSE IF dt.m > 1 THEN [y |-> dt.y, m |-> dt.m - 1, d |-> DaysInMonth(dt.y, dt.m - 1)]
    ELSE [y |-> dt.y - 1, m |-> 12, d |-> 31]

\* dt + timedelta(days=1)
AddDay(dt) ==
    IF dt.d < DaysInMonth(dt.y, dt.m) THEN [dt EXCEPT !.d = dt.d + 1]
    ELSE IF dt.m < 12 THEN [y |-> dt.y, m |-> dt.m + 1, d |-> 1]
    ELSE [y |-> dt.y + 1, m |-> 1, d |-> 1]

----------------------------------------------------------------------------
(* build_month_ranges (ingest_arxiv_monthly.py)                            *)

\* the while loop of build_month_ranges: one MonthRange per iteration
RECURSIVE MonthLoop(_, _, _)
MonthLoop(current, end_dt, ranges) ==
    IF DateLE(current, end_dt)
    THEN LET next_month == AddMonth(current)
             month_end == DateMin(end_dt, SubDay(next_month))
         IN  MonthLoop(next_month, end_dt,
                       Append(ranges, [start |-> current, end |-> month_end]))
    ELSE ranges

\* start_dt of build_month_ranges
RangeStart(s) == ReplaceDay1(strptime(s))

build_month_ranges(s, e) == MonthLoop(RangeStart(s), strptime(e), <<>>)

\* the valid YYYYMMDD strings the planner is run on: the first, the 15th and
\* the last day of every month of the enumerated years
DateStrings ==
    { strftime([y |-> y, m |-> m, d |-> d]) :
        <<y, m, d>> \in { t \in (FirstYear .. FirstYear + NumYears - 1) \X (1 .. 12) \X (1 .. 31) :
                            t[3] \in {1, 15, DaysInMonth(t[1], t[2])} } }

RangesInit ==
    /\ pc = "plan"
    /\ start_date \in DateStrings
    /\ end_date \in { e \in DateStrings : start_date <= e }
    /\ month_ranges = <<>>
    /\ IdleOutside("ranges")

\* a call of build_month_ranges(start_date, end_date)
BuildRanges ==
    /\ pc = "plan"
    /\ month_ranges' = build_month_ranges(start_date, end_date)
    /\ pc' = "planned"
    /\ UNCHANGED <<start_date, end_date>>
    /\ Outside("ranges")

RangesNext == BuildRanges

SpecRanges == RangesInit /\ [][RangesNext]_vars

----------------------------------------------------------------------------
(* main and process_month (ingest_arxiv_monthly.py)                        *)

Min(a, b) == IF a < b THEN a ELSE b

Range(q) == {q[k] : k \in DOMAIN q}

\* MetadataFetcher.fetch_and_process_papers, papers_fetched: a window holding
\* r records answers a request for max_results records from offset start
FetchedCount(r, start, max_results) ==
    IF start >= r THEN 0 ELSE Min(max_results, r - start)

\* MetadataFetcher.fetch_and_process_papers, papers_stored: the fetched records
\* that were new to the store
StoredChoices(fetched) == IF all_new THEN {fetched} ELSE 0 .. fetched

\* the last day of month k of FirstYear, as a --end argument
MonthEndString(k) == strftime([y |-> FirstYear, m |-> k, d |-> DaysInMonth(FirstYear, k)])

\* the enumerated --end arguments: runs of one and of two monthly windows
PipeEndDates == {MonthEndString(1), MonthEndString(2)}

PipeInit ==
    /\ pc = "main"
    /\ start_date = FirstYear * 10000 + 101
    /\ end_date \in PipeEndDates
    /\ month_ranges = <<>>
    /\ \/ /\ target_count \in 1 .. MaxTarget
          /\ batch_size \in 1 .. MaxBatch
          /\ initial_total \in 0 .. MaxInitial
          /\ available \in [1 .. Len(build_month_ranges(start_date, end_date)) -> 0 .. MaxAvail]
          /\ all_new \in BOOLEAN
       \/ /\ target_count = ExampleTarget
          /\ batch_size = ExampleBatch
          /\ initial_total = 0
          /\ available = [i \in 1 .. Len(build_month_ranges(start_date, end_date)) |-> ExampleTarget]
          /\ all_new = TRUE
    /\ fetched_total = 0 /\ stored_total = 0 /\ idx = 0
    /\ current_total = 0 /\ stored_this_month = 0 /\ fetched_this_month = 0
    /\ start_index = 0 /\ batch_limit = 0
    /\ errors = 0 /\ fetch_log = <<>>
    /\ IdleOutside("pipe")

\* a stale total: the records stored by earlier months of the run are forgotten
CallCurrentTotalStale(initial, stored_run) == initial

\* the request is not clipped to the records still missing
BatchLimitUnclipped(size, cur, stored_month, max_total) == size

\* only an empty batch ends the month
MonthCompleteOnEmptyOnly(fetched, limit) == fetched = 0

\* main also stops after a month that stored nothing
TargetReachedOrNothingStored(initial, stored_run, target) ==
    initial + stored_run >= target \/ stored_run = 0

\* process_month: the while condition (line 74)
WhileCond(cur, stored_month, max_total) == cur + stored_month < max_total

\* process_month: batch_limit (lines 75-76)
BatchLimit(size, cur, stored_month, max_total) ==
    LET remaining_global == max_total - (cur + stored_month)
    IN  Min(size, remaining_global)

\* process_month: the break condition after a batch (line 112)
MonthComplete(fetched, limit) == fetched = 0 \/ fetched < limit

\* main: the current_total handed to process_month (line 176)
CallCurrentTotal(initial, stored_run) == initial + stored_run

\* main: the break condition of the loop over months (lines 182-186)
TargetReached(initial, stored_run, target) == initial + stored_run >= target

\* the offset advanced by the size of the failed request instead
SkipIndexByLimit(start, size, limit) == start + limit

\* the cursor of the window before is carried over
WindowStartIndexCarried(previous) == previous

\* process_month: start_index = 0 on entry, whatever the last window left (line 72)
WindowStartIndex(previous) == 0

\* process_month: the offset after a failed batch (line 101)
SkipIndex(start, size, limit) == start + size

\* main, up to the loop over months (lines 147-165)
MainStart ==
    /\ pc = "main"
    /\ month_ranges' = build_month_ranges(start_date, end_date)
    /\ fetched_total' = 0
    /\ stored_total' = 0
    /\ IF initial_total >= target_count
       THEN pc' = "done" /\ idx' = idx
       ELSE pc' = "for" /\ idx' = 1
    /\ UNCHANGED <<start_date, end_date, target_count, batch_size, initial_total,
                   current_total, stored_this_month, fetched_this_month, start_index,
                   batch_limit, available, all_new, errors, fetch_log>>
    /\ Outside("pipe")

\* main calls process_month for the next month (lines 167-177, 70-72)
ProcessMonthCall ==
    /\ pc = "for"
    /\ idx <= Len(month_ranges)
    /\ current_total' = CallCurrentTotal(initial_total, stored_total)
    /\ stored_this_month' = 0
    /\ fetched_this_month' = 0
    /\ start_index' = WindowStartIndex(start_index)
    /\ pc' = "while"
    /\ UNCHANGED <<rangeVars, target_count, batch_size, initial_total, fetched_total,
                   stored_total, idx, batch_limit, available, all_new, errors, fetch_log>>
    /\ Outside("pipe")

\* the loop over months runs out of months (lines 167, 188-190)
MonthsExhausted ==
    /\ pc = "for"
    /\ idx > Len(month_ranges)
    /\ pc' = "done"
    /\ UNCHANGED <<rangeVars, argVars, pipeVars>>
    /\ Outside("pipe")

\* process_month: the loop test and the request of the next batch (lines 74-97)
IssueFetch ==
    /\ pc = "while"
    /\ WhileCond(current_total, stored_this_month, target_count)
    /\ batch_limit' = BatchLimit(batch_size, current_total, stored_this_month, target_count)
    /\ pc' = "fetch"
    /\ UNCHANGED <<rangeVars, target_count, batch_size, initial_total, fetched_total,
                   stored_total, idx, current_total, stored_this_month,
                   fetched_this_month, start_index, available, all_new, errors, fetch_log>>
    /\ Outside("pipe")

\* process_month: the loop test fails, the function returns (lines 74, 123)
WhileExit ==
    /\ pc = "while"
    /\ ~WhileCond(current_total, stored_this_month, target_count)
    /\ pc' = "ret"
    /\ UNCHANGED <<rangeVars, argVars, pipeVars>>
    /\ Outside("pipe")

\* fetch_and_process_papers returns a result (lines 105-121)
FetchReturns ==
    /\ pc = "fetch"
    /\ LET fetched == FetchedCount(available[idx], start_index, batch_limit)
       IN  \E stored \in StoredChoices(fetched) :
            /\ fetched_this_month' = fetched_this_month + fetched
            /\ stored_this_month' = stored_this_month + stored
            /\ fetch_log' = Append(fetch_log,
                   [month |-> idx, start |-> start_index, max_results |-> batch_limit,
                    raised |-> FALSE, fetched |-> fetched, stored |-> stored])
            /\ IF MonthComplete(fetched, batch_limit)
               THEN pc' = "ret" /\ start_index' = start_index
               ELSE pc' = "while" /\ start_index' = start_index + fetched
    /\ UNCHANGED <<rangeVars, target_count, batch_size, initial_total, fetched_total,
                   stored_total, idx, current_total, batch_limit, available, all_new,
                   errors>>
    /\ Outside("pipe")

\* fetch_and_process_papers raises (lines 98-103)
FetchRaises ==
    /\ pc = "fetch"
    /\ errors < MaxErrors
    /\ errors' = errors + 1
    /\ start_index' = SkipIndex(start_index, batch_size, batch_limit)
    /\ fetch_log' = Append(fetch_log,
           [month |-> idx, start |-> start_index, max_results |-> batch_limit,
            raised |-> TRUE, fetched |-> 0, stored |-> 0])
    /\ pc' = "while"
    /\ UNCHANGED <<rangeVars, target_count, batch_size, initial_total, fetched_total,
                   stored_total, idx, current_total, stored_this_month,
                   fetched_this_month, batch_limit, available, all_new>>
    /\ Outside("pipe")

\* process_month returns to main (lines 123, 179-186)
ProcessMonthReturn ==
    /\ pc = "ret"
    /\ fetched_total' = fetched_total + fetched_this_month
    /\ stored_total' = stored_total + stored_this_month
    /\ IF TargetReached(initial_total, stored_total', target_count)
       THEN pc' = "done" /\ idx' = idx
       ELSE pc' = "for" /\ idx' = idx + 1
    /\ UNCHANGED <<rangeVars, target_count, batch_size, initial_total, current_total,
                   stored_this_month, fetched_this_month, start_index, batch_limit,
                   available, all_new, errors, fetch_log>>
    /\ Outside("pipe")

PipeNext ==
    \/ MainStart
    \/ ProcessMonthCall
    \/ MonthsExhausted
    \/ IssueFetch
    \/ WhileExit
    \/ FetchReturns
    \/ FetchRaises
    \/ ProcessMonthReturn

SpecPipe == PipeInit /\ [][PipeNext]_vars

\* offsets from here on are past the end of every window of the run: the
\* fetcher answers them all alike, and start_index is not counted beyond
StartCap ==
    batch_size + CHOOSE r \in Range(available) : \A q \in Range(available) : q <= r

\* fetch_and_process_papers raises once more, after the MaxErrors failures
\* that are logged (lines 98-103): nothing but start_index changes
FetchRaisesAgain ==
    /\ pc = "fetch"
    /\ errors >= MaxErrors
    /\ start_index' = Min(SkipIndex(start_index, batch_size, batch_limit), StartCap)
    /\ pc' = "while"
    /\ UNCHANGED <<rangeVars, target_count, batch_size, initial_total, fetched_total,
                   stored_total, idx, current_total, stored_this_month,
                   fetched_this_month, batch_limit, available, all_new, errors,
                   fetch_log>>
    /\ Outside("pipe")

PipeLiveNext == PipeNext \/ FetchRaisesAgain

\* runs on an empty store whose every fetched record is new
PipeLiveInit == PipeInit /\ all_new = TRUE /\ initial_total = 0

\* the pipeline with a fetcher that may raise on every call; the script takes
\* a step whenever it can
SpecPipeLive == PipeLiveInit /\ [][PipeLiveNext]_vars /\ WF_vars(PipeLiveNext)

----------------------------------------------------------------------------
(* RetryConfig.get_delay (src/utils/retry.py)                              *)
(* Delays are floats in the code.  Here initial_delay and max_delay are    *)
(* counted in tenths of a second and exponential_base is 2^base_exp, so    *)
(* that every product is exact; a delay returned by get_delay is counted   *)
(* in units of 1 / DelayUnit tenths, which makes the jitter factor         *)
(* 0.5 + k / RandomSteps an integer multiple of the unit.                  *)

DelayUnit == 2 * RandomSteps

\* exponential_base ** attempt raises OverflowError when the power leaves the
\* range of a float: (2^k) ** attempt = 2^(k * attempt) >= 2^1024
PowOverflows(k, a) == k * a >= FloatMaxExp

\* min(x * 2^e, cap), doubling x until the cap is passed: the power itself is
\* far outside the integers TLC can hold
RECURSIVE ScaledMin(_, _, _)
ScaledMin(x, e, cap) ==
    IF x = 0 THEN Min(0, cap)
    ELSE IF x >= cap THEN cap
    ELSE IF e = 0 THEN x
    ELSE ScaledMin(2 * x, e - 1, cap)

\* line 52: delay = min(initial_delay * exponential_base ** attempt, max_delay)
CappedDelay(a) == ScaledMin(initial_delay, base_exp * a, max_delay)

\* lines 55-58: delay * (0.5 + random.random()), with random.random() = r / RandomSteps
Jittered(d, r) == d * (RandomSteps + 2 * r)

\* the values random.random() takes: r / RandomSteps in [0, 1)
RandomDraws == 0 .. RandomSteps - 1

\* RetryConfig.get_delay(attempt), random.random() drawing r / RandomSteps
get_delay(a, r) ==
    IF PowOverflows(base_exp, a)
    THEN [kind |-> "OverflowError"]
    ELSE [kind |-> "delay",
          value |-> IF jitter THEN Jittered(CappedDelay(a), r)
                    ELSE CappedDelay(a) * DelayUnit]

\* the pre-configured (initial_delay, max_delay) pairs of the module and the
\* defaults of RetryConfig, in tenths of a second
Presets == {<<1, 10>>, <<5, 50>>, <<10, 100>>, <<5, 100>>, <<2, 20>>}

\* the attempts get_delay is called on: the first ones, and those around the
\* point where exponential_base ** attempt leaves the float range
AttemptArgs ==
    (0 .. MaxAttemptArg)
        \cup {(FloatMaxExp \div 2) - 1, FloatMaxExp \div 2, FloatMaxExp - 1, FloatMaxExp}

DelayInit ==
    /\ pc = "delay"
    /\ \E p \in Presets \cup {<<0, 10>>, <<10, 5>>} :
           initial_delay = p[1] /\ max_delay = p[2]
    /\ base_exp \in 0 .. MaxBaseExp
    /\ jitter \in BOOLEAN
    /\ attempt \in AttemptArgs
    /\ max_attempts = 0 /\ retryable_exceptions = "all"
    /\ calls = 0 /\ sleeps = 0 /\ slept = None
    /\ last_exception = None /\ outcome = None /\ delay = None /\ delay_next = None
    /\ IdleOutside("retry")

\* config.get_delay(attempt)
GetDelay ==
    /\ pc = "delay"
    /\ \E r \in RandomDraws : delay' = get_delay(attempt, r)
    /\ pc' = "delay_next"
    /\ UNCHANGED <<configVars, attempt, calls, sleeps, slept, last_exception, outcome,
                   delay_next>>
    /\ Outside("retry")

\* config.get_delay(attempt + 1)
GetDelayNext ==
    /\ pc = "delay_next"
    /\ \E r \in RandomDraws : delay_next' = get_delay(attempt + 1, r)
    /\ pc' = "delayed"
    /\ UNCHANGED <<configVars, attempt, calls, sleeps, slept, last_exception, outcome,
                   delay>>
    /\ Outside("retry")

DelayNext == GetDelay \/ GetDelayNext

SpecDelay == DelayInit /\ [][DelayNext]_vars

----------------------------------------------------------------------------
(* with_retry: sync_wrapper and async_wrapper (src/utils/retry.py)         *)
(* The two wrappers differ only in how they call and sleep (await).        *)

\* the exception classes the wrapped operation raises
OpExceptions == {"ConnectionError", "ValueError"}

\* every exception is caught by the wrapper
CatchesEverything(kind) == TRUE

\* except config.retryable_exceptions: (Exception,) by default, or
\* (ConnectionError, TimeoutError) as in OLLAMA_RETRY and REDIS_RETRY
IsRetryable(kind) ==
    \/ retryable_exceptions = "all"
    \/ kind \in {"ConnectionError", "TimeoutError"}

RetryInit ==
    /\ pc = "wrapper"
    /\ \/ /\ max_attempts \in 0 .. MaxAttempts
          /\ \E p \in Presets : initial_delay = p[1] /\ max_delay = p[2]
       \/ /\ max_attempts = FloatMaxExp + 2
          /\ initial_delay = 5 /\ max_delay = 100
    /\ base_exp = 1
    /\ jitter \in BOOLEAN
    /\ retryable_exceptions \in {"all", "network"}
    /\ attempt = 0 /\ calls = 0 /\ sleeps = 0 /\ slept = None
    /\ last_exception = None /\ outcome = [kind |-> "running"]
    /\ delay = None /\ delay_next = None
    /\ IdleOutside("retry")

\* the wrapper is entered: last_exception = None, the for loop starts (82-84)
WrapperEnter ==
    /\ pc = "wrapper"
    /\ attempt' = 0
    /\ last_exception' = None
    /\ pc' = IF 0 < max_attempts THEN "try" ELSE "exhausted"
    /\ UNCHANGED <<configVars, calls, sleeps, slept, outcome, delay, delay_next>>
    /\ Outside("retry")

\* func(*args, **kwargs) returns: the wrapper returns its result (line 86)
CallReturns ==
    /\ pc = "try"
    /\ calls' = calls + 1
    /\ outcome' = [kind |-> "returned", call |-> calls + 1]
    /\ pc' = "returned"
    /\ UNCHANGED <<configVars, attempt, sleeps, slept, last_exception, delay, delay_next>>
    /\ Outside("retry")

\* func(*args, **kwargs) raises (lines 86-89)
CallRaises ==
    /\ pc = "try"
    /\ \E kind \in OpExceptions :
        LET e == [kind |-> kind, call |-> calls + 1]
        IN  /\ calls' = calls + 1
            /\ IF IsRetryable(kind)
               THEN /\ last_exception' = e
                    /\ outcome' = [kind |-> "caught", exc |-> e]
                    /\ pc' = "caught"
               ELSE /\ last_exception' = last_exception
                    /\ outcome' = [kind |-> "raised", exc |-> e]
                    /\ pc' = "raised"
    /\ UNCHANGED <<configVars, attempt, sleeps, slept, delay, delay_next>>
    /\ Outside("retry")

\* not the last attempt: compute the delay and sleep (lines 91-97)
Backoff ==
    /\ pc = "caught"
    /\ attempt < max_attempts - 1
    /\ \E r \in RandomDraws :
        LET d == get_delay(attempt, r)
        IN  /\ delay' = d
            /\ IF d.kind = "OverflowError"
               THEN /\ outcome' = [kind |-> "raised", exc |-> [kind |-> "OverflowError", call |-> 0]]
                    /\ pc' = "raised"
                    /\ UNCHANGED <<attempt, sleeps, slept>>
               ELSE /\ sleeps' = sleeps + 1
                    /\ slept' = d
                    /\ attempt' = attempt + 1
                    /\ outcome' = [kind |-> "running"]
                    /\ pc' = "try"
    /\ UNCHANGED <<configVars, calls, last_exception, delay_next>>
    /\ Outside("retry")

\* the last attempt failed: log, and the for loop ends (lines 98-101)
LastAttemptFailed ==
    /\ pc = "caught"
    /\ ~(attempt < max_attempts - 1)
    /\ attempt' = attempt + 1
    /\ pc' = "exhausted"
    /\ UNCHANGED <<configVars, calls, sleeps, slept, last_exception, outcome, delay,
                   delay_next>>
    /\ Outside("retry")

\* raise last_exception (line 104); raising None is a TypeError
RaiseLast ==
    /\ pc = "exhausted"
    /\ outcome' = [kind |-> "raised",
                   exc |-> IF last_exception = None
                           THEN [kind |-> "TypeError", call |-> 0]
                           ELSE last_exception]
    /\ pc' = "raised"
    /\ UNCHANGED <<configVars, attempt, calls, sleeps, slept, last_exception, delay,
                   delay_next>>
    /\ Outside("retry")

RetryNext ==
    \/ WrapperEnter
    \/ CallReturns
    \/ CallRaises
    \/ Backoff
    \/ LastAttemptFailed
    \/ RaiseLast

SpecRetry == RetryInit /\ [][RetryNext]_vars

----------------------------------------------------------------------------
(* The papers table and PaperRepository (src/models/paper.py,              *)
(* src/repositories/paper.py)                                              *)
(* A row carries its id and the columns pmid, arxiv_id, doi and abstract;  *)
(* a record (PaperCreate) is a function from the names of its fields to    *)
(* their values.                                                           *)

\* SQL NULL / Python None in a column or field
NULL == "<null>"

\* Python truthiness of a field value
Truthy(v) == v \notin {NULL, ""}

\* hasattr(paper_create, f)
HasAttr(rec, f) == f \in DOMAIN rec

\* natural keys the provider hands out; the client drops a record without pmid
PMIDs == {"p1", "p2", "p3"}

\* the arXiv id a row ingested by the earlier arXiv pipeline carries
LegacyArxivId(pmid) == IF pmid = "p1" THEN "ax1" ELSE "ax2"

\* PaperCreate(pmid=..., abstract=paper.abstract or "", doi=paper.doi, ...):
\* every field is set explicitly, doi and abstract possibly to ""
PaperCreate(pmid, doi, abstract) ==
    [pmid |-> pmid, doi |-> doi, abstract |-> abstract]

PubMedRecords ==
    {PaperCreate(p, d, a) : p \in PMIDs, d \in {"", "d1"}, a \in {"", "a1"}}

\* the unique and NOT NULL constraints of the papers table
ViolatesConstraints(tbl) ==
    \/ \E r \in tbl : r.pmid = NULL \/ r.abstract = NULL
    \/ \E r1, r2 \in tbl :
        /\ r1 # r2
        /\ \/ r1.id = r2.id
           \/ r1.pmid = r2.pmid
           \/ r1.arxiv_id # NULL /\ r1.arxiv_id = r2.arxiv_id

\* a fresh uuid4
NewId(tbl) ==
    IF tbl = {} THEN 1
    ELSE 1 + CHOOSE m \in {r.id : r \in tbl} : \A r \in tbl : r.id <= m

\* the lookup that finds nothing (defined first: get_by_pmid is compared with it)
get_by_pmid_blind(tbl, pmid) == None

get_by_pmid(tbl, pmid) ==
    IF \E r \in tbl : r.pmid = pmid
    THEN CHOOSE r \in tbl : r.pmid = pmid
    ELSE None

get_by_arxiv_id(tbl, arxiv_id) ==
    IF \E r \in tbl : r.arxiv_id = arxiv_id
    THEN CHOOSE r \in tbl : r.arxiv_id = arxiv_id
    ELSE None

get_count(tbl) == Cardinality(tbl)

\* setattr(existing_paper, key, value) for every set field of the record
SetAttrs(row, rec) ==
    [f \in DOMAIN row |-> IF f \in DOMAIN rec THEN rec[f] ELSE row[f]]

\* Paper(**paper.model_dump()): columns the record lacks keep their default
NewRow(tbl, rec) ==
    [f \in {"id", "pmid", "arxiv_id", "doi", "abstract"} |->
        IF f = "id" THEN NewId(tbl)
        ELSE IF f \in DOMAIN rec THEN rec[f] ELSE NULL]

\* session.commit(): an IntegrityError leaves the table as it was
Commit(tbl, newtbl, path) ==
    IF ViolatesConstraints(newtbl)
    THEN [papers |-> tbl, path |-> path, raised |-> TRUE]
    ELSE [papers |-> newtbl, path |-> path, raised |-> FALSE]

\* the row upsert works on: pmid first, then arxiv_id (lines 105-113)
ExistingPaper(tbl, rec) ==
    LET byPmid == IF HasAttr(rec, "pmid") /\ Truthy(rec.pmid)
                  THEN get_by_pmid(tbl, rec.pmid) ELSE None
    IN  IF byPmid = None /\ HasAttr(rec, "arxiv_id") /\ Truthy(rec.arxiv_id)
        THEN get_by_arxiv_id(tbl, rec.arxiv_id)
        ELSE byPmid

upsert(tbl, rec) ==
    LET existing_paper == ExistingPaper(tbl, rec)
    IN  IF existing_paper # None
        THEN Commit(tbl, (tbl \ {existing_paper})
                            \cup {SetAttrs(existing_paper, rec)}, "update")
        ELSE Commit(tbl, tbl \cup {NewRow(tbl, rec)}, "insert")

\* the rows a store may hold for one pmid before the calls: stored by an
\* earlier PubMed run, or by the earlier arXiv pipeline and given a pmid
StoredRows(pmid, id) ==
    {[id |-> id, pmid |-> pmid, arxiv_id |-> x, doi |-> d, abstract |-> a] :
        x \in {NULL, LegacyArxivId(pmid)}, d \in {"", "d1"}, a \in {"", "a1"}}

InitialStores ==
    {s1 \cup s2 : s1 \in {{}} \cup {{r} : r \in StoredRows("p1", 1)},
                  s2 \in {{}} \cup {{r} : r \in StoredRows("p2", 2)}}

StoreInit ==
    /\ pc = "store"
    /\ papers \in InitialStores
    /\ upsert_log = <<>>
    /\ session = "active"
    /\ IdleOutside("store")

\* store_papers lines 121-127 for one record: the get_by_pmid pre-check that
\* classifies the record, then repo.upsert
StoreRecord ==
    /\ pc = "store"
    /\ Len(upsert_log) < MaxUpserts
    /\ \E rec \in PubMedRecords :
        LET existing == get_by_pmid(papers, rec.pmid)
            res == upsert(papers, rec)
        IN  /\ papers' = res.papers
            /\ upsert_log' = Append(upsert_log,
                    [record |-> rec,
                     classified |-> IF existing # None THEN "updated" ELSE "stored",
                     path |-> res.path,
                     raised |-> res.raised,
                     rows |-> Cardinality({r \in res.papers : r.pmid = rec.pmid}),
                     count |-> get_count(res.papers)])
    /\ session' = session
    /\ pc' = pc
    /\ Outside("store")

StoreNext == StoreRecord

SpecStore == StoreInit /\ [][StoreNext]_vars

\* the arXiv ids the earlier pipeline hands out: two that legacy rows carry
\* and one no row carries
ArxivIds == {"ax1", "ax2", "ax3"}

\* the PaperCreate of src/schemas/arxiv/paper.py, the record type upsert
\* tells from the PubMed one by hasattr: it carries arxiv_id and no pmid
ArxivPaperCreate(arxiv_id, abstract) ==
    [arxiv_id |-> arxiv_id, abstract |-> abstract]

ArxivRecords ==
    {ArxivPaperCreate(x, a) : x \in ArxivIds, a \in {"", "a1"}}

\* repo.upsert(paper_create) with a record of either type; the entry keeps
\* the table before and after the call and what each lookup alone finds
UpsertRecord ==
    /\ pc = "upsert"
    /\ Len(upsert_log) < MaxLookups
    /\ \E rec \in PubMedRecords \cup ArxivRecords :
        LET res == upsert(papers, rec)
        IN  /\ papers' = res.papers
            /\ upsert_log' = Append(upsert_log,
                    [record |-> rec,
                     by_pmid |-> IF HasAttr(rec, "pmid")
                                 THEN get_by_pmid(papers, rec.pmid) ELSE None,
                     by_arxiv_id |-> IF HasAttr(rec, "arxiv_id")
                                     THEN get_by_arxiv_id(papers, rec.arxiv_id)
                                     ELSE None,
                     path |-> res.path,
                     raised |-> res.raised,
                     before |-> papers,
                     after |-> res.papers])
    /\ session' = session
    /\ pc' = pc
    /\ Outside("store")

UpsertInit ==
    /\ pc = "upsert"
    /\ papers \in InitialStores
    /\ upsert_log = <<>>
    /\ session = "active"
    /\ IdleOutside("store")

UpsertNext == UpsertRecord

SpecUpsert == UpsertInit /\ [][UpsertNext]_vars

----------------------------------------------------------------------------
(* BulkPaperIngestion (bulk_ingest_papers.py)                              *)

\* what the provider holds for a PMID: p2 has no DOI, p3 no abstract
ProviderDoi(pmid) == IF pmid = "p2" THEN "" ELSE "d1"
ProviderAbstract(pmid) == IF pmid = "p3" THEN "" ELSE "a1"

\* the PaperCreate store_papers builds from a fetched paper (lines 105-118)
PaperCreateOf(pmid) ==
    PaperCreate(pmid, ProviderDoi(pmid), ProviderAbstract(pmid))

\* a search returns each PMID at most once
ResultLists ==
    {q \in UNION {[1..n -> PMIDs] : n \in 0..MaxResults} :
        \A a, b \in DOMAIN q : a # b => q[a] # q[b]}

\* the stores a run starts on: empty, or holding p1 from an earlier run
BulkStores ==
    {st \in InitialStores :
        /\ Cardinality(st) <= 1
        /\ \A r \in st : r.pmid = "p1" /\ r.doi = "d1" /\ r.abstract = "a1"}

Prefix(q, n) == SubSeq(q, 1, Min(n, Len(q)))

\* batch = papers[i:i + self.batch_size]
Batch == SubSeq(fetched_papers, batch_start + 1,
                Min(batch_start + batch_size, Len(fetched_papers)))

\* exceptions injected so far: failed fetches and upserts the database refused
FailuresSoFar ==
    Cardinality({k \in DOMAIN fetch_calls : fetch_calls[k].raised})
        + Cardinality({k \in DOMAIN upsert_log : upsert_log[k].raised})

BulkInit ==
    /\ pc = "run"
    /\ target_count \in 1..MaxTarget
    /\ batch_size \in 1..MaxBatch
    /\ papers \in BulkStores
    /\ upsert_log = <<>>
    /\ session = "active"
    /\ search_queries \in [1..2 -> ResultLists]
    /\ query_idx = 0
    /\ fetched_papers = <<>>
    /\ batch_start = 0
    /\ paper_pos = 0
    /\ processed_pmids = {}
    /\ stats = [papers_fetched |-> 0, papers_stored |-> 0, papers_updated |-> 0,
                papers_indexed |-> 0, papers_failed |-> 0, batches_processed |-> 0]
    /\ current_count = 0
    /\ papers_needed = 0
    /\ fetch_calls = <<>>
    /\ IdleOutside("bulk")

\* run_ingestion up to the query loop (lines 178-189)
RunStart ==
    /\ pc = "run"
    /\ current_count' = get_count(papers)
    /\ IF get_count(papers) >= target_count
       THEN /\ pc' = "returned_early"
            /\ UNCHANGED <<papers_needed, query_idx>>
       ELSE /\ papers_needed' = target_count - get_count(papers)
            /\ query_idx' = 1
            /\ pc' = "query"
    /\ UNCHANGED <<argVars, storeVars, search_queries, fetched_papers, batch_start,
                   paper_pos, processed_pmids, stats, fetch_calls>>
    /\ Outside("bulk")

\* the query loop ends: no query is left, or the target is reached (line 194);
\* print_final_report follows
QueriesDone ==
    /\ pc = "query"
    /\ \/ query_idx > Len(search_queries)
       \/ current_count >= target_count
    /\ pc' = "reported"
    /\ UNCHANGED <<argVars, storeVars, bulkVars>>
    /\ Outside("bulk")

\* max_results of the fetch_papers_batch call (line 205)
MaxResultsArg == Min(batch_size * 10, papers_needed)

\* after the batches of a query, or "continue": the next query
NextQuery == query_idx + 1

\* fetch_papers_batch returns what the client's search and full-record fetch
\* deliver (lines 203-216)
FetchBatchReturns ==
    /\ pc = "query"
    /\ query_idx <= Len(search_queries)
    /\ current_count < target_count
    /\ LET got == Prefix(search_queries[query_idx], MaxResultsArg)
       IN  /\ fetch_calls' = Append(fetch_calls,
                    [query |-> query_idx, max_results |-> MaxResultsArg,
                     raised |-> FALSE, pmids |-> got,
                     processed |-> processed_pmids])
           /\ fetched_papers' = got
           /\ stats' = [stats EXCEPT !.papers_fetched = @ + Len(got)]
           /\ IF got = <<>>
              THEN /\ query_idx' = NextQuery
                   /\ pc' = "query"
                   /\ UNCHANGED <<batch_start, paper_pos>>
              ELSE /\ batch_start' = 0
                   /\ paper_pos' = 1
                   /\ pc' = "store"
                   /\ UNCHANGED query_idx
    /\ UNCHANGED <<argVars, storeVars, search_queries, processed_pmids,
                   current_count, papers_needed>>
    /\ Outside("bulk")

\* the client raises: fetch_papers_batch logs and returns [] (lines 72-74)
FetchBatchRaises ==
    /\ pc = "query"
    /\ query_idx <= Len(search_queries)
    /\ current_count < target_count
    /\ FailuresSoFar < MaxErrors
    /\ fetch_calls' = Append(fetch_calls,
            [query |-> query_idx, max_results |-> MaxResultsArg,
             raised |-> TRUE, pmids |-> <<>>, processed |-> processed_pmids])
    /\ fetched_papers' = <<>>
    /\ query_idx' = NextQuery
    /\ pc' = "query"
    /\ UNCHANGED <<argVars, storeVars, search_queries, batch_start, paper_pos,
                   processed_pmids, stats, current_count, papers_needed>>
    /\ Outside("bulk")

\* store_papers: the paper is in processed_pmids and is skipped (lines 88-89)
SkipProcessed ==
    /\ pc = "store"
    /\ paper_pos <= Len(Batch)
    /\ Batch[paper_pos] \in processed_pmids
    /\ paper_pos' = paper_pos + 1
    /\ pc' = pc
    /\ UNCHANGED <<argVars, storeVars, search_queries, query_idx, fetched_papers,
                   batch_start, processed_pmids, stats, current_count,
                   papers_needed, fetch_calls>>
    /\ Outside("bulk")

\* the entry a store call leaves in upsert_log
StoreCall(rec, res, raised) ==
    [record |-> rec,
     classified |-> IF get_by_pmid(papers, rec.pmid) # None
                    THEN "updated" ELSE "stored",
     path |-> res.path,
     raised |-> raised,
     rows |-> Cardinality({r \in res.papers : r.pmid = rec.pmid}),
     count |-> get_count(res.papers)]

\* the entry of a paper whose pre-check raised: upsert was not called
NoStoreCall(rec) ==
    [record |-> rec,
     classified |-> "none",
     path |-> "none",
     raised |-> TRUE,
     rows |-> Cardinality({r \in papers : r.pmid = rec.pmid}),
     count |-> get_count(papers)]

\* stored / updated are counted on the pre-check, before upsert runs (lines 121-125)
CountClassified(st, rec) ==
    IF get_by_pmid(papers, rec.pmid) # None
    THEN [st EXCEPT !.papers_updated = @ + 1]
    ELSE [st EXCEPT !.papers_stored = @ + 1]

\* store_papers for one paper that is not in processed_pmids: pre-check,
\* upsert, processed_pmids.add (lines 91-128); an IntegrityError of upsert
\* ends in the except branch (lines 130-132)
StorePaper ==
    /\ pc = "store"
    /\ paper_pos <= Len(Batch)
    /\ Batch[paper_pos] \notin processed_pmids
    /\ session = "active"
    /\ LET rec == PaperCreateOf(Batch[paper_pos])
           res == upsert(papers, rec)
       IN  /\ papers' = res.papers
           /\ session' = IF res.raised THEN "inactive" ELSE session
           /\ upsert_log' = Append(upsert_log, StoreCall(rec, res, res.raised))
           /\ IF res.raised
              THEN /\ stats' = [CountClassified(stats, rec)
                                    EXCEPT !.papers_failed = @ + 1]
                   /\ UNCHANGED processed_pmids
              ELSE /\ stats' = CountClassified(stats, rec)
                   /\ processed_pmids' = processed_pmids \cup {rec.pmid}
    /\ paper_pos' = paper_pos + 1
    /\ pc' = pc
    /\ UNCHANGED <<argVars, search_queries, query_idx, fetched_papers, batch_start,
                   current_count, papers_needed, fetch_calls>>
    /\ Outside("bulk")

\* the database fails while upsert runs: nothing is written, the paper is
\* counted as failed and stays out of processed_pmids (lines 130-132)
StorePaperFails ==
    /\ pc = "store"
    /\ paper_pos <= Len(Batch)
    /\ Batch[paper_pos] \notin processed_pmids
    /\ FailuresSoFar < MaxErrors
    /\ session = "active"
    /\ session' = "inactive"
    /\ LET rec == PaperCreateOf(Batch[paper_pos])
           res == [upsert(papers, rec) EXCEPT !.papers = papers]
       IN  /\ upsert_log' = Append(upsert_log, StoreCall(rec, res, TRUE))
           /\ stats' = [CountClassified(stats, rec) EXCEPT !.papers_failed = @ + 1]
    /\ paper_pos' = paper_pos + 1
    /\ pc' = pc
    /\ UNCHANGED <<argVars, papers, search_queries, query_idx, fetched_papers,
                   batch_start, processed_pmids, current_count, papers_needed,
                   fetch_calls>>
    /\ Outside("bulk")

\* the session has failed earlier in this with block and has not been rolled
\* back: the pre-check get_by_pmid raises before any statement reaches the
\* database, and the except branch counts the paper as failed (lines 121,
\* 130-132)
StorePaperInactive ==
    /\ pc = "store"
    /\ paper_pos <= Len(Batch)
    /\ Batch[paper_pos] \notin processed_pmids
    /\ session = "inactive"
    /\ upsert_log' = Append(upsert_log, NoStoreCall(PaperCreateOf(Batch[paper_pos])))
    /\ stats' = [stats EXCEPT !.papers_failed = @ + 1]
    /\ paper_pos' = paper_pos + 1
    /\ pc' = pc
    /\ UNCHANGED <<argVars, papers, session, search_queries, query_idx, fetched_papers,
                   batch_start, processed_pmids, current_count, papers_needed,
                   fetch_calls>>
    /\ Outside("bulk")

\* store_papers returns (line 134); the with block closes its session, the
\* next batch gets a new one (line 82)
StoreDone ==
    /\ pc = "store"
    /\ paper_pos > Len(Batch)
    /\ pc' = "index"
    /\ session' = "active"
    /\ UNCHANGED <<argVars, papers, upsert_log, bulkVars>>
    /\ Outside("bulk")

\* index_papers: every paper of the batch found in the table is indexed
\* (lines 144-163, 230-234)
IndexPapers ==
    /\ pc = "index"
    /\ stats' = [stats EXCEPT
            !.papers_indexed = @ + Cardinality({k \in DOMAIN Batch :
                                    get_by_pmid(papers, Batch[k]) # None}),
            !.batches_processed = @ + 1]
    /\ pc' = "count"
    /\ UNCHANGED <<argVars, storeVars, search_queries, query_idx, fetched_papers,
                   batch_start, paper_pos, processed_pmids, current_count,
                   papers_needed, fetch_calls>>
    /\ Outside("bulk")

\* current_count is refreshed; the batch loop breaks at the target or goes on
\* with the next batch, and the query loop follows it (lines 235-240, 216)
RefreshCount ==
    /\ pc = "count"
    /\ current_count' = get_count(papers)
    /\ IF \/ get_count(papers) >= target_count
          \/ batch_start + batch_size >= Len(fetched_papers)
       THEN /\ query_idx' = NextQuery
            /\ pc' = "query"
            /\ UNCHANGED <<batch_start, paper_pos>>
       ELSE /\ batch_start' = batch_start + batch_size
            /\ paper_pos' = 1
            /\ pc' = "store"
            /\ UNCHANGED query_idx
    /\ UNCHANGED <<argVars, storeVars, search_queries, fetched_papers,
                   processed_pmids, stats, papers_needed, fetch_calls>>
    /\ Outside("bulk")

BulkNext ==
    \/ RunStart
    \/ QueriesDone
    \/ FetchBatchReturns
    \/ FetchBatchRaises
    \/ SkipProcessed
    \/ StorePaper
    \/ StorePaperFails
    \/ StorePaperInactive
    \/ StoreDone
    \/ IndexPapers
    \/ RefreshCount

SpecBulk == BulkInit /\ [][BulkNext]_vars

\* the process is interrupted (KeyboardInterrupt, lines 355-359) or has ended,
\* and the script is started again on the same store: __init__ builds a new
\* object with zeroed statistics and an empty processed_pmids (lines 37-56).
\* Every upsert has committed on its own (repositories/paper.py lines 19, 98),
\* so the table is as the last completed upsert left it.
Restart ==
    /\ pc \in {"query", "store", "index", "count", "reported", "returned_early"}
    /\ Len(upsert_log) <= MaxRestartLog
    /\ pc' = "run"
    /\ query_idx' = 0
    /\ fetched_papers' = <<>>
    /\ batch_start' = 0
    /\ paper_pos' = 0
    /\ processed_pmids' = {}
    /\ stats' = [papers_fetched |-> 0, papers_stored |-> 0, papers_updated |-> 0,
                 papers_indexed |-> 0, papers_failed |-> 0, batches_processed |-> 0]
    /\ current_count' = 0
    /\ papers_needed' = 0
    /\ fetch_calls' = <<>>
    /\ session' = "active"
    /\ UNCHANGED <<argVars, papers, upsert_log, search_queries>>
    /\ Outside("bulk")

BulkRestartNext == BulkNext \/ Restart

\* the runs that are started again: two queries of at most two results, so
\* that a batch of two papers can be interrupted between its papers
BulkRestartInit ==
    /\ BulkInit
    /\ target_count \in {2, 3}
    /\ batch_size \in {1, 2}
    /\ \A q \in DOMAIN search_queries : Len(search_queries[q]) <= 2

SpecBulkRestart == BulkRestartInit /\ [][BulkRestartNext]_vars

----------------------------------------------------------------------------
(* run_paper_ingestion_pipeline (airflow/dags/pubmed_ingestion/fetching.py) *)
(* with the parsing of the EFetch response (src/services/pubmed/client.py)  *)

\* a PubmedArticle element of the response: well formed, or lacking its
\* MedlineCitation, PMID or Article element
Article(pmid) == [kind |-> "article", pmid |-> pmid]
Malformed(what) == [kind |-> "malformed", pmid |-> what]
MalformedEntries == {Malformed(w) : w \in {"no_citation", "no_pmid", "no_article"}}

\* _parse_pubmed_article: None for a malformed element (lines 344-357)
_parse_pubmed_article(entry) ==
    IF entry.kind = "malformed" THEN None
    ELSE [kind |-> "PubMedPaper", pmid |-> entry.pmid]

\* _parse_efetch_response: the parsed articles, None dropped (lines 326-332);
\* a paper is carried by its pmid
RECURSIVE _parse_efetch_response(_)
_parse_efetch_response(entries) ==
    IF entries = <<>> THEN <<>>
    ELSE LET paper == _parse_pubmed_article(Head(entries))
             rest == _parse_efetch_response(Tail(entries))
         IN  IF paper # None THEN <<paper.pmid>> \o rest ELSE rest

\* responses of up to MaxEntries elements, each PMID at most once
SmallResponses ==
    {q \in UNION {[1..n -> {Article(p) : p \in PMIDs} \cup MalformedEntries] :
                    n \in 0..MaxEntries} :
        \A a, b \in DOMAIN q :
            (a # b /\ q[a].kind = "article") => q[a] # q[b]}

\* the PMIDs of the example response
ExamplePmid(k) ==
    <<"e1", "e2", "e3", "e4", "e5", "e6", "e7", "e8", "e9", "e10">>[k]

\* the example: ExampleEntries elements, the one at position bad malformed
ExampleResponse(bad) ==
    [k \in 1..ExampleEntries |->
        IF k = bad THEN Malformed("no_pmid") ELSE Article(ExamplePmid(k))]

DagResponses ==
    SmallResponses \cup {ExampleResponse(bad) : bad \in 1..ExampleEntries}

DagInit ==
    /\ pc = "dag"
    /\ papers \in BulkStores
    /\ upsert_log = <<>>
    /\ session = "active"
    /\ efetch_response \in DagResponses
    /\ fetched_papers = <<>>
    /\ paper_pos = 0
    /\ stats = <<>>
    /\ search_queries = <<>> /\ query_idx = 0 /\ batch_start = 0
    /\ processed_pmids = {} /\ current_count = 0 /\ papers_needed = 0
    /\ fetch_calls = <<>>
    /\ IdleOutside("dag")

\* the bulk script's variables the DAG pipeline does not have
DagUnused == <<search_queries, query_idx, batch_start, processed_pmids,
               current_count, papers_needed>>

\* pubmed_client.fetch_papers returns the parsed papers; the counters start
\* at 0 (lines 31-43)
DagFetch ==
    /\ pc = "dag"
    /\ fetched_papers' = _parse_efetch_response(efetch_response)
    /\ fetch_calls' = Append(fetch_calls,
            [query |-> 0, max_results |-> Len(efetch_response), raised |-> FALSE,
             pmids |-> _parse_efetch_response(efetch_response), processed |-> {}])
    /\ stats' = [papers_fetched |-> 0, papers_stored |-> 0, papers_updated |-> 0,
                 papers_failed |-> 0]
    /\ paper_pos' = 1
    /\ pc' = "dag_store"
    /\ UNCHANGED <<storeVars, DagUnused, dagVars>>
    /\ Outside("dag")

\* the request fails or the document as a whole does not parse: fetch_papers
\* raises and nothing catches it (lines 31-36)
DagFetchRaises ==
    /\ pc = "dag"
    /\ FailuresSoFar < MaxErrors
    /\ fetch_calls' = Append(fetch_calls,
            [query |-> 0, max_results |-> Len(efetch_response), raised |-> TRUE,
             pmids |-> <<>>, processed |-> {}])
    /\ pc' = "dag_raised"
    /\ UNCHANGED <<storeVars, DagUnused, dagVars, fetched_papers, paper_pos, stats>>
    /\ Outside("dag")

\* one paper of the loop: pre-check, counters, upsert (lines 51-94)
DagStorePaper ==
    /\ pc = "dag_store"
    /\ paper_pos <= Len(fetched_papers)
    /\ session = "active"
    /\ LET rec == PaperCreateOf(fetched_papers[paper_pos])
           res == upsert(papers, rec)
       IN  /\ papers' = res.papers
           /\ session' = IF res.raised THEN "inactive" ELSE session
           /\ upsert_log' = Append(upsert_log, StoreCall(rec, res, res.raised))
           /\ stats' = IF res.raised
                       THEN [CountClassified(stats, rec) EXCEPT !.papers_failed = @ + 1]
                       ELSE CountClassified(stats, rec)
    /\ paper_pos' = paper_pos + 1
    /\ pc' = pc
    /\ UNCHANGED <<DagUnused, dagVars, fetched_papers, fetch_calls>>
    /\ Outside("dag")

\* the database fails while upsert runs (lines 90-94)
DagStorePaperFails ==
    /\ pc = "dag_store"
    /\ paper_pos <= Len(fetched_papers)
    /\ FailuresSoFar < MaxErrors
    /\ session = "active"
    /\ session' = "inactive"
    /\ LET rec == PaperCreateOf(fetched_papers[paper_pos])
           res == [upsert(papers, rec) EXCEPT !.papers = papers]
       IN  /\ upsert_log' = Append(upsert_log, StoreCall(rec, res, TRUE))
           /\ stats' = [CountClassified(stats, rec) EXCEPT !.papers_failed = @ + 1]
    /\ paper_pos' = paper_pos + 1
    /\ pc' = pc
    /\ UNCHANGED <<papers, DagUnused, dagVars, fetched_papers, fetch_calls>>
    /\ Outside("dag")

\* the session has failed earlier in the loop: get_by_pmid raises and the
\* paper is counted as failed (lines 84, 92-94)
DagStorePaperInactive ==
    /\ pc = "dag_store"
    /\ paper_pos <= Len(fetched_papers)
    /\ session = "inactive"
    /\ upsert_log' = Append(upsert_log,
                            NoStoreCall(PaperCreateOf(fetched_papers[paper_pos])))
    /\ stats' = [stats EXCEPT !.papers_failed = @ + 1]
    /\ paper_pos' = paper_pos + 1
    /\ pc' = pc
    /\ UNCHANGED <<papers, session, DagUnused, dagVars, fetched_papers, fetch_calls>>
    /\ Outside("dag")

\* the statistics are returned (lines 96-101)
DagReturn ==
    /\ pc = "dag_store"
    /\ paper_pos > Len(fetched_papers)
    /\ stats' = [stats EXCEPT !.papers_fetched = Len(fetched_papers)]
    /\ pc' = "dag_returned"
    /\ UNCHANGED <<storeVars, DagUnused, dagVars, fetched_papers, paper_pos,
                   fetch_calls>>
    /\ Outside("dag")

DagNext ==
    \/ DagFetch
    \/ DagFetchRaises
    \/ DagStorePaper
    \/ DagStorePaperFails
    \/ DagStorePaperInactive
    \/ DagReturn

SpecDag == DagInit /\ [][DagNext]_vars

----------------------------------------------------------------------------
(* PubMedClient: _enforce_rate_limit and the requests of search_papers,     *)
(* _fetch_batch and get_summaries (src/services/pubmed/client.py)           *)
(* Coroutines run on one event loop: a coroutine runs without interruption  *)
(* up to its next await that suspends (asyncio.sleep, the HTTP request).    *)

\* the E-utilities the three methods call
Endpoints == {"esearch", "efetch", "esummary"}

Idle == [pc |-> "idle", endpoint |-> "", arrived |-> 0, sleep_time |-> 0]

\* the coroutines that have computed their sleep and not yet issued a request
Sleeping == {c \in DOMAIN coroutine : coroutine[c].pc = "sleeping"}

\* the coroutines whose request is in flight
InFlight == {c \in DOMAIN coroutine : coroutine[c].pc = "in_flight"}

\* n coroutines share the client get_pubmed_client() caches
ClientInit(n) ==
    /\ pc = "client"
    /\ now = 0
    /\ rate_limit_delay \in 1 .. MaxRateDelay
    /\ _last_request_time = NoTime
    /\ coroutine = [c \in 1 .. n |-> Idle]
    /\ requests = <<>>
    /\ IdleOutside("client")

\* the request leaves and the time of the last request is left as it was
IssueUnstamped(c, endpoint, arrived, sleep_time) ==
    /\ UNCHANGED _last_request_time
    /\ requests' = Append(requests,
            [by |-> c, endpoint |-> endpoint, arrived |-> arrived,
             sleep_time |-> sleep_time, at |-> now, status |-> "in_flight"])
    /\ coroutine' = [coroutine EXCEPT ![c] =
            [pc |-> "in_flight", endpoint |-> endpoint, arrived |-> arrived,
             sleep_time |-> sleep_time]]

\* the request leaves: _last_request_time = time.time() (line 67), then
\* client.get(url) (lines 128-129, 187-188, 286-287)
Issue(c, endpoint, arrived, sleep_time) ==
    /\ _last_request_time' = now
    /\ requests' = Append(requests,
            [by |-> c, endpoint |-> endpoint, arrived |-> arrived,
             sleep_time |-> sleep_time, at |-> now, status |-> "in_flight"])
    /\ coroutine' = [coroutine EXCEPT ![c] =
            [pc |-> "in_flight", endpoint |-> endpoint, arrived |-> arrived,
             sleep_time |-> sleep_time]]

\* no wait at all
SleepTimeNone(spacing, time_since_last) == 0

\* sleep_time = self.rate_limit_delay - time_since_last (line 65)
SleepTime(spacing, time_since_last) == spacing - time_since_last

\* a coroutine calls search_papers, _fetch_batch or get_summaries and runs
\* _enforce_rate_limit up to asyncio.sleep, or through to the request when
\* nothing is to be waited for (lines 62-67)
ClientCall ==
    /\ pc = "client"
    /\ Len(requests) + Cardinality(Sleeping) < MaxRequests
    /\ \E c \in DOMAIN coroutine, endpoint \in Endpoints :
        /\ coroutine[c].pc = "idle"
        /\ LET time_since_last == now - _last_request_time
           IN  IF _last_request_time # NoTime /\ time_since_last < rate_limit_delay
               THEN /\ coroutine' = [coroutine EXCEPT ![c] =
                            [pc |-> "sleeping", endpoint |-> endpoint, arrived |-> now,
                             sleep_time |-> SleepTime(rate_limit_delay, time_since_last)]]
                    /\ UNCHANGED <<_last_request_time, requests>>
               ELSE Issue(c, endpoint, now, 0)
    /\ UNCHANGED <<pc, now, rate_limit_delay>>
    /\ Outside("client")

\* asyncio.sleep(sleep_time) is over: the coroutine resumes, not before its
\* time, and issues its request (lines 66-67)
WakeUp ==
    /\ pc = "client"
    /\ \E c \in Sleeping :
        /\ now >= coroutine[c].arrived + coroutine[c].sleep_time
        /\ Issue(c, coroutine[c].endpoint, coroutine[c].arrived, coroutine[c].sleep_time)
    /\ UNCHANGED <<pc, now, rate_limit_delay>>
    /\ Outside("client")

\* the latest request of coroutine c
RequestOf(c) ==
    CHOOSE i \in DOMAIN requests :
        requests[i].by = c /\ \A j \in DOMAIN requests : requests[j].by = c => j <= i

\* the response arrives and the method returns (lines 129-139, 188-194)
ResponseArrives ==
    /\ pc = "client"
    /\ \E c \in InFlight :
        /\ requests' = [requests EXCEPT ![RequestOf(c)].status = "ok"]
        /\ coroutine' = [coroutine EXCEPT ![c] = Idle]
    /\ UNCHANGED <<pc, now, rate_limit_delay, _last_request_time>>
    /\ Outside("client")

\* the request times out or the provider answers 5xx: the method raises
\* PubMedAPITimeoutError / PubMedAPIException to its caller (lines 141-146,
\* 196-204)
RequestFails ==
    /\ pc = "client"
    /\ \E c \in InFlight :
        /\ requests' = [requests EXCEPT ![RequestOf(c)].status = "raised"]
        /\ coroutine' = [coroutine EXCEPT ![c] = Idle]
    /\ UNCHANGED <<pc, now, rate_limit_delay, _last_request_time>>
    /\ Outside("client")

\* time passes
Tick ==
    /\ pc = "client"
    /\ now < MaxTime
    /\ now' = now + 1
    /\ UNCHANGED <<pc, rate_limit_delay, _last_request_time, coroutine, requests>>
    /\ Outside("client")

ClientNext ==
    \/ ClientCall
    \/ WakeUp
    \/ ResponseArrives
    \/ RequestFails
    \/ Tick

\* one caller: its calls follow one another
SpecClient == ClientInit(1) /\ [][ClientNext]_vars

\* two coroutines use the cached client
SpecClientShared == ClientInit(2) /\ [][ClientNext]_vars

----------------------------------------------------------------------------
(* The publication date of a fetched paper (bulk_ingest_papers.py lines     *)
(* 91-102, fetching.py lines 53-66)                                         *)
(* A date string is the sequence of its tokens: "Y" a four-digit year, "m"  *)
(* a number from 01 to 12, "d" a number from 13 to 31, "b" an abbreviated   *)
(* month name, "-" and " " the separators, "w" any other text.              *)

DateTokens == {"Y", "m", "d", "b", "-", " ", "w"}

PublishedDates == UNION {[1..n -> DateTokens] : n \in 0..MaxDateTokens}

\* the formats tried, in order: "%Y-%m-%d", "%Y-%m", "%Y", "%Y %b %d", "%Y %b"
DateFormats ==
    << <<"%Y", "-", "%m", "-", "%d">>,
       <<"%Y", "-", "%m">>,
       <<"%Y">>,
       <<"%Y", " ", "%b", " ", "%d">>,
       <<"%Y", " ", "%b">> >>

\* a token of the string satisfies a directive or literal of the format
TokenMatches(tok, directive) ==
    CASE directive = "%Y" -> tok = "Y"
      [] directive = "%m" -> tok = "m"
      [] directive = "%d" -> tok \in {"m", "d"}
      [] directive = "%b" -> tok = "b"
      [] OTHER -> tok = directive

\* datetime.strptime(s, fmt) returns; otherwise it raises ValueError
StrptimeMatches(s, fmt) ==
    /\ Len(s) = Len(fmt)
    /\ \A i \in 1..Len(s) : TokenMatches(s[i], fmt[i])

\* the datetime values the conversion can produce, and the marker of a date
\* that could not be resolved
ParsedDate(s, k) == [kind |-> "datetime", value |-> s, format |-> k]
WallClockNow == [kind |-> "datetime", value |-> "now", format |-> 0]
Unresolved == [kind |-> "unresolved", value |-> "", format |-> 0]

\* the loop over the formats: the first that matches wins (lines 92-99)
TryFormats(s) ==
    IF s # <<>> /\ \E k \in DOMAIN DateFormats : StrptimeMatches(s, DateFormats[k])
    THEN LET k == CHOOSE j \in DOMAIN DateFormats :
                    /\ StrptimeMatches(s, DateFormats[j])
                    /\ \A i \in 1..(j - 1) : ~StrptimeMatches(s, DateFormats[i])
         IN  ParsedDate(s, k)
    ELSE None

\* if not pub_date: pub_date = datetime.now() (lines 101-102)
DefaultDate(d) == IF d = None THEN WallClockNow ELSE d

DateInit ==
    /\ pc = "dates"
    /\ published_date \in PublishedDates
    /\ pub_date = None
    /\ pub_date_elem = NoPubDate
    /\ IdleOutside("dates")

\* lines 91-102: the value handed to PaperCreate(published_date=pub_date)
ConvertDate ==
    /\ pc = "dates"
    /\ pub_date' = DefaultDate(TryFormats(published_date))
    /\ pc' = "dates_done"
    /\ UNCHANGED <<published_date, pub_date_elem>>
    /\ Outside("dates")

DateNext == ConvertDate

SpecDates == DateInit /\ [][DateNext]_vars

----------------------------------------------------------------------------
(* PubMedClient._extract_pub_date (src/services/pubmed/client.py lines      *)
(* 461-485) followed by the date conversion of the store step               *)
(* A child of PubDate is "absent", or carries its text as a token: ""       *)
(* when the element is empty, "Y" a year, "m" a number from 01 to 12, "d" a *)
(* number from 13 to 31, "b" an abbreviated month name. A MedlineDate, when *)
(* found, carries free text such as "2024 Mar-Apr", as its tokens.          *)

MedlineTexts == {<< >>, <<"Y", " ", "b", "-", "b">>, <<"Y", " ", "b">>}

PubDateElems ==
    {NoPubDate} \cup
    {[is_none |-> FALSE, Year |-> y, Month |-> m, Day |-> d, MedlineDate |-> t] :
        y \in {"absent", "", "Y"}, m \in {"absent", "", "m", "b"},
        d \in {"absent", "", "m", "d"},
        t \in {[found |-> FALSE, text |-> << >>]}
               \cup {[found |-> TRUE, text |-> x] : x \in MedlineTexts}}

\* "if x is not None and x.text" (lines 473, 478, 480, 482)
HasText(child) == child \notin {"absent", ""}

\* sep.join(parts)
RECURSIVE Join(_, _)
Join(sep, parts) ==
    IF parts = << >> THEN << >>
    ELSE IF Len(parts) = 1 THEN <<parts[1]>>
    ELSE <<parts[1], sep>> \o Join(sep, Tail(parts))

\* date_parts (lines 477-483)
DateParts(e) ==
    (IF HasText(e.Year) THEN <<e.Year>> ELSE << >>)
    \o (IF HasText(e.Month) THEN <<e.Month>> ELSE << >>)
    \o (IF HasText(e.Day) THEN <<e.Day>> ELSE << >>)

_extract_pub_date(e) ==
    IF e.is_none THEN << >>
    ELSE IF e.Year = "absent" /\ e.MedlineDate.found /\ e.MedlineDate.text # << >>
         THEN e.MedlineDate.text
    ELSE Join("-", DateParts(e))

PubDateInit ==
    /\ pc = "pub_date"
    /\ pub_date_elem \in PubDateElems
    /\ published_date = << >>
    /\ pub_date = None
    /\ IdleOutside("dates")

\* _parse_pubmed_article: pub_date = self._extract_pub_date(pub_date_elem) (line 402)
ExtractPubDate ==
    /\ pc = "pub_date"
    /\ published_date' = _extract_pub_date(pub_date_elem)
    /\ pc' = "dates"
    /\ UNCHANGED <<pub_date, pub_date_elem>>
    /\ Outside("dates")

PubDateNext ==
    \/ ExtractPubDate
    \/ ConvertDate

SpecPubDate == PubDateInit /\ [][PubDateNext]_vars

----------------------------------------------------------------------------
(* PubMedClient.search_papers and _parse_esearch_response                  *)
(* (src/services/pubmed/client.py lines 125-146, 305-318)                   *)
(* A response is the outcome of the HTTP request and, when a body arrived,  *)
(* the document: whether it is well-formed XML, its root element, whether   *)
(* the root has an IdList child, and the text of the Id elements.           *)

Returned(value) == [kind |-> "returned", value |-> value, exception |-> ""]
Raised(exception) == [kind |-> "raised", value |-> <<>>, exception |-> exception]

\* the text of an Id element: a PMID, or nothing
IdTexts == {"p1", "p2", ""}

EsearchDocuments ==
    [wellformed : BOOLEAN,
     root : {"eSearchResult", "html"},
     has_id_list : BOOLEAN,
     ids : UNION {[1..n -> IdTexts] : n \in 0..MaxIds}]

EsearchResponses ==
    {[http |-> h, xml_data |-> x] :
        h \in {"ok", "timeout", "status_error"}, x \in EsearchDocuments}

\* a document whose top-level envelope is that of an ESearch result
ValidEnvelope(x) == x.wellformed /\ x.root = "eSearchResult"

\* _parse_esearch_response (lines 305-318): ET.fromstring raises ParseError
\* for a document that is not well formed; root.find("IdList") looks for the
\* child whatever the root element is
_parse_esearch_response(x) ==
    IF ~x.wellformed THEN Raised("PubMedParseError")
    ELSE IF ~x.has_id_list THEN Returned(<<>>)
    ELSE Returned(SelectSeq(x.ids, LAMBDA t : t # ""))

\* the handler "except Exception" of search_papers (lines 144-146)
WrapUnexpected(result) ==
    IF result.kind = "raised" THEN Raised("PubMedAPIException") ELSE result

\* the try block of search_papers and its handlers (lines 125-146)
search_papers(r) ==
    CASE r.http = "timeout" -> Raised("PubMedAPITimeoutError")
      [] r.http = "status_error" -> Raised("PubMedAPIException")
      [] OTHER -> WrapUnexpected(_parse_esearch_response(r.xml_data))

SearchInit ==
    /\ pc = "search"
    /\ esearch_response \in EsearchResponses
    /\ search_result = <<>>
    /\ IdleOutside("esearch")

SearchPapers ==
    /\ pc = "search"
    /\ search_result' = search_papers(esearch_response)
    /\ pc' = "searched"
    /\ UNCHANGED esearch_response
    /\ Outside("esearch")

SearchNext == SearchPapers

SpecSearch == SearchInit /\ [][SearchNext]_vars

----------------------------------------------------------------------------
(* PubMedClient.fetch_papers_by_ids (src/services/pubmed/client.py lines    *)
(* 148-170).  An identifier is its position in the list handed in.          *)

\* the sub-batch whose slice would run one element too far (defined first:
\* SubBatch is compared with it)
SubBatchOverlapping(ids, i) ==
    SubSeq(ids, i + 1, Min(i + EfetchBatchSize + 1, Len(ids)))

\* batch = pmids[i:i + batch_size] (line 166)
SubBatch(ids, i) ==
    SubSeq(ids, i + 1, Min(i + EfetchBatchSize, Len(ids)))

\* what _parse_efetch_response makes of the response to a sub-batch: a paper
\* per identifier, or all but the first when that entry is malformed
BatchResults(batch) ==
    {batch} \cup (IF batch = <<>> THEN {} ELSE {Tail(batch)})

\* the papers collected so far are handed back in place of the exception
\* (defined first: PropagateError is compared with it)
ReturnCollected(collected, exception) == Returned(collected)

\* no handler surrounds the call of _fetch_batch (lines 165-168): its
\* exception leaves fetch_papers_by_ids, and all_papers is dropped
PropagateError(collected, exception) == Raised(exception)

\* pmids is what search_papers returned to fetch_papers (lines 230-244), or
\* the list of another caller of fetch_papers_by_ids
FetchByIdsInit ==
    /\ pc = "fetch_by_ids"
    /\ pmids \in {[k \in 1..n |-> k] : n \in 0..MaxPmidCount}
    /\ fetch_i = 0
    /\ all_papers = <<>>
    /\ efetch_requests = <<>>
    /\ fetch_result = None
    /\ IdleOutside("efetch")

\* if not pmids: return [] (lines 239-241 in fetch_papers, lines 158-159), or
\* the loop has come to its end (line 170)
FetchByIdsReturn ==
    /\ pc = "fetch_by_ids"
    /\ fetch_i >= Len(pmids)
    /\ pc' = "fetched_by_ids"
    /\ fetch_result' = Returned(all_papers)
    /\ UNCHANGED <<pmids, fetch_i, all_papers, efetch_requests>>
    /\ Outside("efetch")

\* one pass of the loop: the sub-batch is fetched and its papers appended
\* (lines 165-168)
FetchSubBatch ==
    /\ pc = "fetch_by_ids"
    /\ fetch_i < Len(pmids)
    /\ \E papers_parsed \in BatchResults(SubBatch(pmids, fetch_i)) :
        /\ efetch_requests' = Append(efetch_requests,
                [ids |-> SubBatch(pmids, fetch_i), papers |-> papers_parsed,
                 raised |-> FALSE])
        /\ all_papers' = all_papers \o papers_parsed
    /\ fetch_i' = fetch_i + EfetchBatchSize
    /\ pc' = pc
    /\ UNCHANGED <<pmids, fetch_result>>
    /\ Outside("efetch")

\* _fetch_batch raises PubMedAPITimeoutError or PubMedAPIException (lines
\* 196-204) and nothing in fetch_papers_by_ids or fetch_papers catches it
FetchSubBatchRaises ==
    /\ pc = "fetch_by_ids"
    /\ fetch_i < Len(pmids)
    /\ efetch_requests' = Append(efetch_requests,
            [ids |-> SubBatch(pmids, fetch_i), papers |-> <<>>, raised |-> TRUE])
    /\ \E exception \in {"PubMedAPITimeoutError", "PubMedAPIException"} :
            fetch_result' = PropagateError(all_papers, exception)
    /\ pc' = "fetch_by_ids_raised"
    /\ UNCHANGED <<pmids, fetch_i, all_papers>>
    /\ Outside("efetch")

FetchByIdsNext ==
    \/ FetchByIdsReturn
    \/ FetchSubBatch
    \/ FetchSubBatchRaises

SpecFetchByIds == FetchByIdsInit /\ [][FetchByIdsNext]_vars

----------------------------------------------------------------------------
(* PubMedClient.download_pdf and _download_with_retry                      *)
(* (src/services/pubmed/client.py lines 515-615)                            *)
(* download_attempts, retry_sleeps, download_result and pdf_result are      *)
(* those of the download_pdf call in progress or last made.                 *)

\* how one HTTP attempt can end: the body is streamed to the file; the
\* response has status 404, 403, another 4xx status or a 5xx status; the
\* request times out (httpx.TimeoutException); the connection fails or is
\* reset (httpx.ConnectError, httpx.ReadError)
AttemptOutcomes == {"ok", "404", "403", "4xx", "5xx", "timeout", "connection_error"}

\* the statuses that are retried like every other (defined first:
\* NotAccessible is compared with it)
NotAccessibleOnly404(ended) == ended = "404"

\* status 404 read from the response (line 569), or status 404 / 403 of the
\* HTTPStatusError (line 594): the document is not available
NotAccessible(ended) == ended \in {"404", "403"}

\* the handlers that can retry: httpx.TimeoutException (line 582) and
\* httpx.HTTPStatusError, which raise_for_status raises for every 4xx and
\* 5xx status (lines 573, 592); the latter returns first for a status that
\* is NotAccessible
RetryingHandler(ended) == ended \in {"timeout", "403", "4xx", "5xx"}

\* the file at pdf_path after an attempt: open(path, "wb") creates or
\* truncates it once the status is accepted (line 575) and the chunks are
\* written as they arrive (lines 576-577); a timeout or a connection error
\* comes before the response (streaming = FALSE) or while the body is
\* streamed (streaming = TRUE); a status error is raised before the file is
\* opened
FileAfterAttempt(file, ended, streaming) ==
    CASE ended = "ok" -> "complete"
      [] ended \in {"timeout", "connection_error"} /\ streaming -> "partial"
      [] OTHER -> file

DownloadInit ==
    /\ pc = "download_pdf"
    /\ max_retries \in 0..MaxRetries
    /\ download_attempts = <<>>
    /\ retry_sleeps = <<>>
    /\ download_result = ""
    /\ pdf_result = ""
    /\ pdf_file \in {"absent", "complete"}
    /\ force_download \in BOOLEAN
    /\ download_calls = 1
    /\ IdleOutside("download")

\* download_pdf for a paper with a PMC id: the cached file is returned
\* (lines 536-538), or _download_with_retry is called (line 543): the
\* rate-limit sleep passes (line 562) and the loop is entered, or is empty
\* for max_retries = 0, and then the file at the path is removed (lines 564,
\* 611-615)
DownloadStart ==
    /\ pc = "download_pdf"
    /\ IF pdf_file # "absent" /\ ~force_download
       THEN /\ pdf_result' = "pdf_path"
            /\ pc' = "download_pdf_returned"
            /\ UNCHANGED <<download_result, pdf_file>>
       ELSE IF max_retries = 0
       THEN /\ download_result' = "False" /\ pc' = "downloaded"
            /\ pdf_file' = "absent"
            /\ UNCHANGED pdf_result
       ELSE /\ download_result' = download_result /\ pc' = "attempt"
            /\ UNCHANGED <<pdf_result, pdf_file>>
    /\ UNCHANGED <<max_retries, download_attempts, retry_sleeps, force_download,
                   download_calls>>
    /\ Outside("download")

\* one pass of the loop (lines 564-609) with the attempt ending as given
DownloadAttempt ==
    /\ pc = "attempt"
    /\ \E ended \in AttemptOutcomes, streaming \in BOOLEAN :
        LET dl_attempt == Len(download_attempts)
        IN  /\ download_attempts' = Append(download_attempts, ended)
            /\ pdf_file' = FileAfterAttempt(pdf_file, ended, streaming)
            /\ CASE ended = "ok" ->
                        /\ download_result' = "True"
                        /\ pc' = "downloaded"
                        /\ UNCHANGED retry_sleeps
                  [] NotAccessible(ended) ->
                        /\ download_result' = "False"
                        /\ pc' = "downloaded"
                        /\ UNCHANGED retry_sleeps
                  [] ~NotAccessible(ended) /\ RetryingHandler(ended) ->
                        IF dl_attempt < max_retries - 1
                        THEN /\ retry_sleeps' = Append(retry_sleeps, dl_attempt + 1)
                             /\ pc' = pc
                             /\ UNCHANGED download_result
                        ELSE /\ download_result' = "False"
                             /\ pc' = "downloaded"
                             /\ UNCHANGED retry_sleeps
                  [] OTHER ->
                        \* except Exception (lines 607-609)
                        /\ download_result' = "False"
                        /\ pc' = "downloaded"
                        /\ UNCHANGED retry_sleeps
    /\ UNCHANGED <<max_retries, pdf_result, force_download, download_calls>>
    /\ Outside("download")

\* download_pdf returns the path or None (lines 543-547)
DownloadPdfReturn ==
    /\ pc = "downloaded"
    /\ pdf_result' = IF download_result = "True" THEN "pdf_path" ELSE "None"
    /\ pc' = "download_pdf_returned"
    /\ UNCHANGED <<max_retries, download_attempts, retry_sleeps, download_result,
                   pdf_file, force_download, download_calls>>
    /\ Outside("download")

\* download_pdf is called again for the same paper (line 515)
DownloadPdfAgain ==
    /\ pc = "download_pdf_returned"
    /\ download_calls < MaxDownloadCalls
    /\ download_calls' = download_calls + 1
    /\ force_download' \in BOOLEAN
    /\ download_attempts' = <<>>
    /\ retry_sleeps' = <<>>
    /\ download_result' = ""
    /\ pdf_result' = ""
    /\ pc' = "download_pdf"
    /\ UNCHANGED <<max_retries, pdf_file>>
    /\ Outside("download")

DownloadNext ==
    \/ DownloadStart
    \/ DownloadAttempt
    \/ DownloadPdfReturn
    \/ DownloadPdfAgain

SpecDownload == DownloadInit /\ [][DownloadNext]_vars

----------------------------------------------------------------------------
(* BulkArxivIngestion.run_ingestion (bulk_ingest_arxiv.py lines 123-220)    *)
(* The run uses the variables of the monthly script: target_count,          *)
(* batch_size, initial_total (current_count at run start), current_total    *)
(* (current_count as refreshed), fetched_total, idx (the window the loop is *)
(* at, counted from today backwards), available and fetch_log.              *)

\* papers_needed = self.target_count - current_count (line 142)
PapersNeeded == target_count - initial_total

\* the while condition (line 153): current_date > start_date holds as long
\* as a window is left
ArxivWhileCond == fetched_total < PapersNeeded /\ idx <= Len(available)

ArxivInit ==
    /\ pc = "arxiv_run"
    /\ target_count \in 1 .. MaxTarget
    /\ batch_size \in 1 .. MaxBatch
    /\ initial_total \in 0 .. MaxInitial
    /\ available \in [1 .. ArxivWindows -> 0 .. MaxAvail]
    /\ all_new \in BOOLEAN
    /\ start_date = 0 /\ end_date = 0 /\ month_ranges = <<>>
    /\ fetched_total = 0 /\ stored_total = 0 /\ idx = 0
    /\ current_total = 0 /\ stored_this_month = 0 /\ fetched_this_month = 0
    /\ start_index = 0 /\ batch_limit = 0
    /\ errors = 0 /\ fetch_log = <<>>
    /\ unindexed \in 0 .. initial_total
    /\ total_indexed = 0 /\ batch_num = 0
    /\ IdleOutside("arxiv")

\* the variables of the monthly script the bulk script has no use for
ArxivUnused == <<rangeVars, argVars, initial_total, stored_total, stored_this_month,
                 fetched_this_month, start_index, batch_limit, available, all_new>>

\* lines 131-151
ArxivRunStart ==
    /\ pc = "arxiv_run"
    /\ current_total' = initial_total
    /\ fetched_total' = 0
    /\ IF initial_total >= target_count
       THEN pc' = "arxiv_index" /\ idx' = idx
       ELSE pc' = "arxiv_while" /\ idx' = 1
    /\ UNCHANGED <<ArxivUnused, errors, fetch_log, indexVars>>
    /\ Outside("arxiv")

\* the loop test fails (line 153): indexing follows
ArxivWhileExit ==
    /\ pc = "arxiv_while"
    /\ ~ArxivWhileCond
    /\ pc' = "arxiv_index"
    /\ UNCHANGED <<rangeVars, argVars, pipeVars, indexVars>>
    /\ Outside("arxiv")

\* one pass of the loop (lines 154-188): one request for the window, with
\* max_results = batch_size and no start offset; then the count is refreshed
\* and the loop breaks or moves to the window before
ArxivFetchWindow ==
    /\ pc = "arxiv_while"
    /\ ArxivWhileCond
    /\ LET fetched == FetchedCount(available[idx], 0, batch_size)
       IN  \E stored \in StoredChoices(fetched) :
            /\ fetched_total' = fetched_total + stored
            /\ fetch_log' = Append(fetch_log,
                   [month |-> idx, start |-> 0, max_results |-> batch_size,
                    raised |-> FALSE, fetched |-> fetched, stored |-> stored])
            /\ current_total' = current_total + stored
            /\ unindexed' = unindexed + stored
            /\ IF current_total + stored >= target_count
               THEN pc' = "arxiv_index" /\ idx' = idx
               ELSE pc' = pc /\ idx' = idx + 1
    /\ UNCHANGED <<ArxivUnused, errors, total_indexed, batch_num>>
    /\ Outside("arxiv")

\* fetch_and_process_papers raises: fetch_papers_by_date_range returns zero
\* counts (lines 86-88) and the loop moves to the window before
ArxivFetchRaises ==
    /\ pc = "arxiv_while"
    /\ ArxivWhileCond
    /\ errors < MaxErrors
    /\ errors' = errors + 1
    /\ fetch_log' = Append(fetch_log,
           [month |-> idx, start |-> 0, max_results |-> batch_size,
            raised |-> TRUE, fetched |-> 0, stored |-> 0])
    /\ idx' = idx + 1
    /\ pc' = pc
    /\ UNCHANGED <<ArxivUnused, fetched_total, current_total, indexVars>>
    /\ Outside("arxiv")

\* the methods PaperRepository defines (src/repositories/paper.py)
PaperRepositoryMethods ==
    {"create", "get_by_arxiv_id", "get_by_pmid", "get_by_paper_id", "get_by_id",
     "get_all", "get_count", "get_processed_papers", "get_unprocessed_papers",
     "get_papers_with_raw_text", "get_processing_stats", "update", "upsert"}

\* index_papers_from_db (lines 90-121): the number of papers indexed, when
\* succeeded of the papers handed out are indexed with success.
\* repo.get_unindexed_papers (line 97) is looked up on PaperRepository: when
\* the class has no such method the AttributeError is caught by the outer
\* handler, which returns 0 (lines 119-121)
index_papers_from_db(not_indexed, limit, succeeded) ==
    IF "get_unindexed_papers" \notin PaperRepositoryMethods THEN 0
    ELSE IF not_indexed = 0 THEN 0
    ELSE succeeded

\* one pass of the loop "while True" (lines 201-220): the loop is left when
\* index_papers_from_db returns 0, with the report that all papers are
\* indexed; otherwise the papers indexed are counted
IndexLoopPass ==
    /\ pc = "arxiv_index"
    /\ batch_num' = batch_num + 1
    /\ \E succeeded \in 0 .. Min(batch_size, unindexed) :
        LET indexed == index_papers_from_db(unindexed, batch_size, succeeded)
        IN  IF indexed = 0
            THEN /\ pc' = "arxiv_all_indexed"
                 /\ UNCHANGED <<unindexed, total_indexed>>
            ELSE /\ pc' = pc
                 /\ total_indexed' = total_indexed + indexed
                 /\ unindexed' = unindexed - indexed
    /\ UNCHANGED <<rangeVars, argVars, pipeVars>>
    /\ Outside("arxiv")

ArxivNext ==
    \/ ArxivRunStart
    \/ ArxivWhileExit
    \/ ArxivFetchWindow
    \/ ArxivFetchRaises
    \/ IndexLoopPass

SpecArxiv == ArxivInit /\ [][ArxivNext]_vars


----------------------------------------------------------------------------
(* The date windows of BulkArxivIngestion.run_ingestion                     *)
(* (bulk_ingest_arxiv.py lines 146-188)                                     *)
(* A date is the ordinal of its day: end_date, start_date, current_date,    *)
(* batch_start and batch_end all carry the time of day of datetime.now(),   *)
(* and strftime("%Y%m%d") keeps the day only.                               *)

\* end_date = datetime.now(); start_date = end_date - timedelta(days=365 * 5);
\* current_date = end_date (lines 146-150)
WindowsInit ==
    /\ pc = "arxiv_dates"
    /\ end_date \in RangeDays + WindowDays .. RangeDays + WindowDays + MaxToday - 1
    /\ start_date = end_date - RangeDays
    /\ current_date = end_date
    /\ date_windows = <<>>
    /\ month_ranges = <<>>
    /\ IdleOutside("windows")

\* one pass of the loop that does not break (lines 153-188): the window
\* from current_date - timedelta(days=30) to current_date is requested and
\* current_date moves to the window's start
FetchDateWindow ==
    /\ pc = "arxiv_dates"
    /\ current_date > start_date
    /\ LET batch_end == current_date
           from_date == current_date - WindowDays
       IN  /\ date_windows' = Append(date_windows,
                                     [from_date |-> from_date, to_date |-> batch_end])
           /\ current_date' = from_date
    /\ UNCHANGED <<pc, rangeVars>>
    /\ Outside("windows")

\* the loop ends: enough was stored (line 153) or the target is reached
\* after a window's request (lines 183-185, current_date is not moved), or
\* current_date > start_date no longer holds
WindowsDone ==
    /\ pc = "arxiv_dates"
    /\ \/ /\ current_date > start_date
          /\ \E target_reached \in BOOLEAN :
                IF target_reached
                THEN date_windows' = Append(date_windows,
                        [from_date |-> current_date - WindowDays, to_date |-> current_date])
                ELSE date_windows' = date_windows
       \/ /\ ~(current_date > start_date)
          /\ date_windows' = date_windows
    /\ pc' = "arxiv_index"
    /\ UNCHANGED <<rangeVars, current_date>>
    /\ Outside("windows")

WindowsNext ==
    \/ FetchDateWindow
    \/ WindowsDone

SpecWindows == WindowsInit /\ [][WindowsNext]_vars


----------------------------------------------------------------------------
(* SearchCacheClient.get_cached_search and store_search_result behind       *)
(* with_retry(REDIS_RETRY) (src/services/cache/search_cache.py lines        *)
(* 51-123, src/utils/retry.py lines 107-130, 178-183)                       *)

\* what a Redis command raises: the built-in ConnectionError and
\* TimeoutError, and the errors of the redis package
RedisErrors ==
    {"ConnectionError", "TimeoutError", "redis.ConnectionError", "redis.TimeoutError",
     "redis.ResponseError"}

\* how a Redis command ends: it is carried out ("ok"), it is not carried
\* out and says so with a falsy reply ("falsy"), or it raises
RedisReplies == {"ok", "falsy"} \cup RedisErrors

\* REDIS_RETRY.retryable_exceptions = (ConnectionError, TimeoutError)
RedisRetryable(exception) == exception \in {"ConnectionError", "TimeoutError"}

\* a handler that lets the network errors through (defined first:
\* BodyExcept is compared with it)
BodyExceptRedisOnly(exception, fallback) ==
    IF exception \in {"ConnectionError", "TimeoutError"}
    THEN Raised(exception)
    ELSE Returned(fallback)

\* "except Exception as e: ... return None / return False" around the whole
\* body (lines 80-82, 121-123)
BodyExcept(exception, fallback) == Returned(fallback)

\* the body of get_cached_search (lines 62-82): redis.get (line 64) ends as get_reply;
\* a corrupt entry fails to deserialize and is deleted, redis.delete (line 74)
\* ending as delete_reply
get_cached_search(entry, get_reply, delete_reply) ==
    IF get_reply \in RedisErrors THEN BodyExcept(get_reply, "None")
    ELSE IF entry = "none" \/ get_reply = "falsy" THEN Returned("None")
    ELSE IF entry = "valid" THEN Returned("SearchResponse")
    ELSE IF delete_reply \in RedisErrors THEN BodyExcept(delete_reply, "None")
    ELSE Returned("None")

\* the body of store_search_result (lines 96-123): redis.set (line 105)
\* ends as set_reply
store_search_result(total, set_reply) ==
    IF total = 0 THEN Returned("False")
    ELSE IF set_reply \in RedisErrors THEN BodyExcept(set_reply, "False")
    ELSE IF set_reply = "ok" THEN Returned("True")
    ELSE Returned("False")

\* what Redis holds under the key after the body has run
EntryAfter(entry, op, first_reply, second_reply) ==
    IF op.name = "get_cached_search"
    THEN IF first_reply = "ok" /\ entry = "corrupt" /\ second_reply = "ok"
         THEN "none" ELSE entry
    ELSE IF op.total > 0 /\ first_reply = "ok" THEN "valid" ELSE entry

CacheInit ==
    /\ pc = "cache"
    /\ cache_entry \in {"none", "valid", "corrupt"}
    /\ cache_op = [name |-> "", total |-> 0]
    /\ cache_attempts = 0
    /\ cache_calls = <<>>
    /\ IdleOutside("cache")

\* a caller awaits get_cached_search(request) or
\* store_search_result(request, response): async_wrapper is entered
\* (retry.py lines 107-110)
CacheCall ==
    /\ pc = "cache"
    /\ Len(cache_calls) < MaxCacheCalls
    /\ \/ cache_op' = [name |-> "get_cached_search", total |-> 0]
       \/ \E total \in 0 .. 1 : cache_op' = [name |-> "store_search_result", total |-> total]
    /\ cache_attempts' = 0
    /\ pc' = "cache_try"
    /\ UNCHANGED <<cache_entry, cache_calls>>
    /\ Outside("cache")

\* one pass of the wrapper's loop (retry.py lines 110-130): the body runs;
\* its result is returned; an exception that is not retryable leaves the
\* wrapper, a retryable one is followed by a sleep and another pass, or is
\* raised after the last attempt
CacheAttempt ==
    /\ pc = "cache_try"
    /\ \E first_reply \in RedisReplies :
       \E second_reply \in IF cache_op.name = "get_cached_search" /\ first_reply = "ok"
                                /\ cache_entry = "corrupt"
                            THEN {"ok"} \cup RedisErrors
                            ELSE {"not issued"} :
        LET result == IF cache_op.name = "get_cached_search"
                      THEN get_cached_search(cache_entry, first_reply, second_reply)
                      ELSE store_search_result(cache_op.total, first_reply)
            over == \/ result.kind = "returned"
                    \/ ~RedisRetryable(result.exception)
                    \/ ~(cache_attempts < RedisMaxAttempts - 1)
        IN  /\ cache_entry' = EntryAfter(cache_entry, cache_op, first_reply, second_reply)
            /\ cache_attempts' = cache_attempts + 1
            /\ IF over
               THEN /\ cache_calls' = Append(cache_calls,
                            [op |-> cache_op, first_reply |-> first_reply,
                             second_reply |-> second_reply,
                             attempts |-> cache_attempts + 1, result |-> result])
                    /\ pc' = "cache"
               ELSE /\ UNCHANGED cache_calls
                    /\ pc' = pc
    /\ UNCHANGED cache_op
    /\ Outside("cache")

CacheNext ==
    \/ CacheCall
    \/ CacheAttempt

SpecCache == CacheInit /\ [][CacheNext]_vars

----------------------------------------------------------------------------
(* C1: for every start_date <= end_date the windows are in chronological   *)
(* order, contiguous (each starts the day after the previous one ends),    *)
(* non-overlapping, and cover exactly [start_date, end_date]: the first    *)
(* window starts at start_date and the last ends at end_date.              *)

RangesOrdered ==
    \A i \in 1 .. Len(month_ranges) : DateLE(month_ranges[i].start, month_ranges[i].end)

RangesContiguous ==
    \A i \in 1 .. Len(month_ranges) - 1 :
        month_ranges[i + 1].start = AddDay(month_ranges[i].end)

C1_RangesCoverExactly ==
    pc = "planned" =>
        /\ Len(month_ranges) >= 1
        /\ RangesOrdered
        /\ RangesContiguous
        /\ month_ranges[1].start = strptime(start_date)
        /\ month_ranges[Len(month_ranges)].end = strptime(end_date)

----------------------------------------------------------------------------
(* Histories of the month-by-month pipeline                                *)

RECURSIVE SumStored(_, _)
SumStored(log, n) == IF n = 0 THEN 0 ELSE log[n].stored + SumStored(log, n - 1)

\* the completed fetch rounds of month m, in order
RoundsOf(m) == SelectSeq(fetch_log, LAMBDA e : e.month = m)

NoErrorIn(m) == \A i \in 1 .. Len(fetch_log) : fetch_log[i].month = m => ~fetch_log[i].raised

----------------------------------------------------------------------------
(* C2: no fetch_and_process_papers call is issued in a state where         *)
(* initial_total plus the records stored so far in this run has reached    *)
(* target_count, inside a window and across window boundaries; a run that  *)
(* starts at or above the target issues no fetch at all.                   *)

C2_NoFetchAtTarget ==
    /\ pc = "fetch" => initial_total + stored_total + stored_this_month < target_count
    /\ \A i \in 1 .. Len(fetch_log) :
           initial_total + SumStored(fetch_log, i - 1) < target_count
    /\ initial_total >= target_count => pc # "fetch" /\ fetch_log = <<>>

\* a fetch in flight in the second window, after records were stored in both
C2_Witness ==
    /\ pc = "fetch" /\ idx = 2
    /\ stored_total > 0 /\ stored_this_month > 0

----------------------------------------------------------------------------
(* C3: with target_count = 250, batch_size = 100, initial_total = 0 and a  *)
(* source that returns and stores as many new records as requested, the    *)
(* pipeline issues exactly 3 batches, with limits 100, 100 and 50, and     *)
(* stops with a total of at least 250.                                     *)

ExampleRun ==
    target_count = ExampleTarget /\ batch_size = ExampleBatch /\ initial_total = 0

FullSource ==
    \A i \in 1 .. Len(fetch_log) :
        /\ ~fetch_log[i].raised
        /\ fetch_log[i].fetched = fetch_log[i].max_results
        /\ fetch_log[i].stored = fetch_log[i].fetched

C3_ExampleBatches ==
    (ExampleRun /\ FullSource) =>
        /\ Len(fetch_log) <= 3
        /\ \A i \in 1 .. Len(fetch_log) : fetch_log[i].max_results = <<100, 100, 50>>[i]
        /\ pc = "fetch" => Len(fetch_log) + 1 <= 3 /\ batch_limit = <<100, 100, 50>>[Len(fetch_log) + 1]
        /\ pc = "done" => Len(fetch_log) = 3 /\ initial_total + stored_total >= 250

C3_Witness ==
    ExampleRun /\ FullSource /\ pc = "done" /\ Len(fetch_log) = 3

----------------------------------------------------------------------------
(* C4 as claimed: for a window holding R records and batch size B, with no *)
(* fetch errors and the target not reached inside the window, process_month*)
(* performs at most ceil(R/B) fetch rounds and stops at the first round    *)
(* that returns fetched == 0 or fetched < batch_limit.                     *)

StopsAtFirstShortRound(m) ==
    LET w == RoundsOf(m)
    IN  \A j \in 1 .. Len(w) - 1 : ~(w[j].fetched = 0 \/ w[j].fetched < w[j].max_results)

EndsWithShortRound(m) ==
    LET w == RoundsOf(m)
    IN  Len(w) >= 1 /\ (w[Len(w)].fetched = 0 \/ w[Len(w)].fetched < w[Len(w)].max_results)

TargetNotReachedInWindow == current_total + stored_this_month < target_count

C4_CeilRounds ==
    (pc = "ret" /\ NoErrorIn(idx) /\ TargetNotReachedInWindow) =>
        /\ Len(RoundsOf(idx)) <= (available[idx] + batch_size - 1) \div batch_size
        /\ StopsAtFirstShortRound(idx)
        /\ EndsWithShortRound(idx)

(* C4 as amended: the window takes at most floor(R/B) + 1 rounds when every *)
(* round requests a full batch of B (one more than ceil(R/B) when B divides *)
(* R, R = 0 included), at most R + 1 rounds when the remaining target makes *)
(* batch_limit smaller than B, and it stops at the first round that returns *)
(* fetched == 0 or fetched < batch_limit.                                   *)
C4_RoundsBound ==
    \A m \in 1 .. Len(month_ranges) :
        NoErrorIn(m) =>
            LET w == RoundsOf(m)
            IN  /\ StopsAtFirstShortRound(m)
                /\ Len(w) <= available[m] + 1
                /\ (\A j \in 1 .. Len(w) : w[j].max_results = batch_size)
                       => Len(w) <= (available[m] \div batch_size) + 1
                /\ (m = idx /\ pc = "ret" /\ TargetNotReachedInWindow) => EndsWithShortRound(m)

\* a window of exactly two full batches takes three rounds
C4_Witness ==
    /\ pc = "ret" /\ NoErrorIn(idx) /\ TargetNotReachedInWindow
    /\ available[idx] = 2 * batch_size
    /\ Len(RoundsOf(idx)) = 3

----------------------------------------------------------------------------
(* C6 as claimed: for max_attempts >= 1, when every attempt fails with a   *)
(* retryable exception, with_retry invokes the operation exactly           *)
(* max_attempts times, sleeps exactly max_attempts - 1 times and raises    *)
(* the exception object of the last attempt unchanged; when an attempt     *)
(* succeeds its result is returned and no further attempt is made.         *)

\* the wrapper has ended by raising and the latest invocation raised a
\* retryable exception: no attempt returned or raised anything else
EveryAttemptFailedRetryable ==
    pc = "raised" /\ last_exception # None /\ last_exception.call = calls

C6_ExhaustedRetries ==
    max_attempts >= 1 =>
        /\ EveryAttemptFailedRetryable =>
               /\ calls = max_attempts
               /\ sleeps = max_attempts - 1
               /\ outcome = [kind |-> "raised", exc |-> last_exception]
        /\ pc = "returned" => outcome = [kind |-> "returned", call |-> calls]

----------------------------------------------------------------------------
(* C7 as claimed: with jitter disabled, get_delay(attempt) equals          *)
(* min(initial_delay * exponential_base^attempt, max_delay); for           *)
(* exponential_base >= 1 it is non-decreasing in attempt and never exceeds *)
(* max_delay, for every attempt >= 0.                                      *)

C7_DelayMonotoneCapped ==
    (pc = "delayed" /\ ~jitter) =>
        /\ delay = [kind |-> "delay", value |-> CappedDelay(attempt) * DelayUnit]
        /\ delay_next.kind = "delay"
        /\ delay.value <= delay_next.value
        /\ delay.value <= max_delay * DelayUnit

----------------------------------------------------------------------------
(* C8 as claimed: with jitter enabled, get_delay scales the capped delay   *)
(* by a factor within [0.5, 1.0]: the delay is between half the capped     *)
(* delay and the capped delay and never exceeds max_delay.                 *)

C8_JitterWithinCap ==
    (pc \in {"delay_next", "delayed"} /\ jitter /\ delay.kind = "delay") =>
        /\ CappedDelay(attempt) * DelayUnit <= 2 * delay.value
        /\ delay.value <= CappedDelay(attempt) * DelayUnit
        /\ delay.value <= max_delay * DelayUnit

----------------------------------------------------------------------------
(* C9: an exception of the operation that is not in the configuration's    *)
(* retryable_exceptions is propagated at once: the wrapper ends by raising *)
(* that exception, the operation was invoked once for it, no sleep follows *)
(* and no further attempt is made, whatever the attempt index.             *)

NotInConfig(kind) ==
    retryable_exceptions = "network" /\ kind \notin {"ConnectionError", "TimeoutError"}

C9_NonRetryablePropagates ==
    (/\ outcome.kind \in {"caught", "raised"}
     /\ outcome.exc.kind \in OpExceptions
     /\ NotInConfig(outcome.exc.kind)) =>
        /\ pc = "raised"
        /\ outcome.kind = "raised"
        /\ outcome.exc.call = calls
        /\ sleeps = calls - 1
        /\ last_exception # outcome.exc

\* a non-retryable exception raised by the third attempt
C9_Witness ==
    /\ pc = "raised"
    /\ outcome.exc.kind \in OpExceptions
    /\ NotInConfig(outcome.exc.kind)
    /\ calls = 3 /\ sleeps = 2

----------------------------------------------------------------------------
(* C5: upsert is idempotent.  From any store state, two calls in sequence  *)
(* with an identical record leave exactly one row with the record's pmid,  *)
(* and the second call is classified as updated by the get_by_pmid         *)
(* pre-check and takes the update path, never the insert path.             *)

SameRecordTwice(n) ==
    /\ n \in 2..Len(upsert_log)
    /\ upsert_log[n].record = upsert_log[n - 1].record

C5_UpsertIdempotent ==
    \A n \in 1..Len(upsert_log) :
        SameRecordTwice(n) =>
            /\ upsert_log[n].rows = 1
            /\ upsert_log[n].classified = "updated"
            /\ upsert_log[n].path = "update"
            /\ ~upsert_log[n].raised
            /\ upsert_log[n].count = upsert_log[n - 1].count

\* the first of the two calls inserted the record, the second updated it
C5_Witness ==
    \E n \in 1..Len(upsert_log) :
        /\ SameRecordTwice(n)
        /\ upsert_log[n - 1].path = "insert"
        /\ ~upsert_log[n - 1].raised
        /\ upsert_log[n].path = "update"

----------------------------------------------------------------------------
(* C10 as claimed: when two queries or batches of one run return the same  *)
(* PMID, the record is stored once, and the second occurrence is           *)
(* recognised through processed_pmids and skipped before its full record   *)
(* is fetched again and before any store call (lookup / upsert) is made    *)
(* for it.                                                                 *)

\* no fetch_papers call delivers the full record of a processed PMID
NoRedundantFetch ==
    \A k \in DOMAIN fetch_calls :
        Range(fetch_calls[k].pmids) \cap fetch_calls[k].processed = {}

\* no store call is made for a PMID an earlier store call of the run stored
NoRedundantStoreCall ==
    \A n \in DOMAIN upsert_log : \A m \in 1..(n - 1) :
        upsert_log[m].record.pmid = upsert_log[n].record.pmid
            => upsert_log[m].raised

\* every processed PMID has exactly one row
StoredOnce ==
    \A p \in processed_pmids : Cardinality({r \in papers : r.pmid = p}) = 1

C10_SkippedBeforeFetchAndStore ==
    /\ StoredOnce
    /\ NoRedundantStoreCall
    /\ NoRedundantFetch

\* the half of C10 the code keeps: stored once, no second store call
C10_StoreHalf == StoredOnce /\ NoRedundantStoreCall

----------------------------------------------------------------------------
(* C11 as claimed: when a fetch response holds N entries of which exactly  *)
(* one is malformed, the other N - 1 records are stored or updated, the    *)
(* failed counter is incremented by exactly 1 for the dropped record, and  *)
(* the run continues to its summary.                                       *)

MalformedCount ==
    Cardinality({k \in DOMAIN efetch_response : efetch_response[k].kind = "malformed"})

\* the response was delivered and no store call failed
OneMalformedEntry ==
    /\ pc \in {"dag_returned", "dag_raised"}
    /\ MalformedCount = 1
    /\ FailuresSoFar = 0

C11_MalformedCountedFailed ==
    OneMalformedEntry =>
        /\ pc = "dag_returned"
        /\ stats.papers_stored + stats.papers_updated = Len(efetch_response) - 1
        /\ stats.papers_failed = 1

\* the part of C11 the code keeps: the other N - 1 records are stored or
\* updated and the run returns its summary
C11_OthersStored ==
    OneMalformedEntry =>
        /\ pc = "dag_returned"
        /\ stats.papers_stored + stats.papers_updated = Len(efetch_response) - 1
        /\ stats.papers_failed = 0

----------------------------------------------------------------------------
(* C12: when the source returns zero records for a window (fetched = 0 on  *)
(* the first round), process_month issues exactly one fetch for that       *)
(* window and returns stored = 0 without raising, and main proceeds to the *)
(* next window in order.                                                   *)

\* the first round of month m returned no record
EmptyWindow(m) ==
    /\ RoundsOf(m) # <<>>
    /\ ~RoundsOf(m)[1].raised
    /\ RoundsOf(m)[1].fetched = 0

\* the rounds are logged month by month, no month skipped
MonthsInOrder ==
    \A i \in 1 .. Len(fetch_log) - 1 :
        fetch_log[i + 1].month \in {fetch_log[i].month, fetch_log[i].month + 1}

C12_EmptyWindowProceeds ==
    \A m \in 1 .. Len(month_ranges) :
        EmptyWindow(m) =>
            /\ Len(RoundsOf(m)) = 1
            /\ RoundsOf(m)[1].stored = 0
            /\ idx = m => (pc = "ret" /\ stored_this_month = 0)
            /\ idx >= m
            /\ (pc = "done" /\ m < Len(month_ranges)) => RoundsOf(m + 1) # <<>>
            /\ MonthsInOrder

\* the first of two windows was empty and the second one was fetched
C12_Witness ==
    /\ pc = "done"
    /\ Len(month_ranges) = 2
    /\ EmptyWindow(1)
    /\ RoundsOf(2) # <<>>
    /\ RoundsOf(2)[1].fetched > 0

----------------------------------------------------------------------------
(* C13 as claimed: process_month terminates for every behaviour of the     *)
(* fetcher, a fetcher whose every call raises included: a call of          *)
(* process_month always leads to its return to the loop over windows.      *)

C13_ProcessMonthTerminates == (pc = "while") ~> (pc = "ret")

----------------------------------------------------------------------------
(* C14: for calls of search_papers / _fetch_batch / get_summaries that      *)
(* follow one another on one client, two consecutive requests are issued    *)
(* at least rate_limit_delay apart: a call arriving earlier is suspended    *)
(* for exactly the remaining difference, a call arriving later is not       *)
(* delayed, and the first request is never delayed.                         *)

C14_SequentialSpacing ==
    \A i \in DOMAIN requests :
        IF i = 1
        THEN requests[i].sleep_time = 0 /\ requests[i].at = requests[i].arrived
        ELSE LET since == requests[i].arrived - requests[i - 1].at
             IN  /\ requests[i].at - requests[i - 1].at >= rate_limit_delay
                 /\ since < rate_limit_delay =>
                        requests[i].sleep_time = rate_limit_delay - since
                 /\ since >= rate_limit_delay =>
                        (requests[i].sleep_time = 0 /\ requests[i].at = requests[i].arrived)

\* three requests: the second had to wait, the third arrived late enough
C14_Witness ==
    /\ Len(requests) = 3
    /\ requests[2].sleep_time > 0
    /\ requests[3].sleep_time = 0
    /\ requests[3].arrived > requests[2].at

----------------------------------------------------------------------------
(* C15 as claimed: when two coroutines use the same cached client, no two   *)
(* requests are in flight at the same time and consecutive requests are     *)
(* spaced by at least rate_limit_delay.                                     *)

C15_NoConcurrentRequests ==
    /\ Cardinality(InFlight) <= 1
    /\ \A i \in 2 .. Len(requests) :
        requests[i].at - requests[i - 1].at >= rate_limit_delay

----------------------------------------------------------------------------
(* C16 as claimed: a transient failure of the HTTP call in search_papers or *)
(* _fetch_batch is retried with backoff, and the error is raised to the     *)
(* caller only after max_attempts consecutive failures.                     *)

\* a request that raises to the caller is the last of a series: an earlier
\* request of the same call failed and was retried
C16_RetriedBeforeRaise ==
    \A i \in DOMAIN requests :
        (requests[i].status = "raised" /\ requests[i].endpoint \in {"esearch", "efetch"})
            => \E j \in 1 .. i - 1 :
                /\ requests[j].by = requests[i].by
                /\ requests[j].endpoint = requests[i].endpoint
                /\ requests[j].status = "retried"

\* the half of C16 the code keeps: every request has passed the rate limiter
C16_RateLimitedFirst ==
    \A i \in DOMAIN requests :
        /\ _last_request_time >= requests[i].at
        /\ requests[i].at >= requests[i].arrived + requests[i].sleep_time

----------------------------------------------------------------------------
(* C17 as claimed: upsert looks the record up by pmid first and only if     *)
(* that finds nothing by arxiv_id; if either lookup matches, that row is    *)
(* updated in place and the number of rows is unchanged; otherwise exactly  *)
(* one new row is inserted.                                                 *)

\* the row the claimed precedence selects for a logged call
Matched(e) == IF e.by_pmid # None THEN e.by_pmid ELSE e.by_arxiv_id

\* the matched row was rewritten and no other row touched
UpdatedInPlace(e) ==
    /\ e.path = "update"
    /\ ~e.raised
    /\ Cardinality(e.after) = Cardinality(e.before)
    /\ e.after \ {r \in e.after : r.id = Matched(e).id}
            = e.before \ {Matched(e)}
    /\ \E r \in e.after : r.id = Matched(e).id /\ r = SetAttrs(Matched(e), e.record)

\* one row was added and it carries the record
InsertedOne(e) ==
    /\ e.path = "insert"
    /\ e.before \subseteq e.after
    /\ Cardinality(e.after) = Cardinality(e.before) + 1
    /\ \A r \in e.after \ e.before :
            \A f \in DOMAIN e.record : r[f] = e.record[f]

C17_UpsertLookupPrecedence ==
    \A n \in DOMAIN upsert_log :
        IF Matched(upsert_log[n]) # None
        THEN UpdatedInPlace(upsert_log[n])
        ELSE InsertedOne(upsert_log[n])

\* the part of C17 the code keeps: the update path is taken exactly when a
\* lookup matches, on the row the precedence selects, and a call that does
\* not raise leaves the row count as claimed
C17_PrecedenceWhenCommitted ==
    \A n \in DOMAIN upsert_log :
        LET e == upsert_log[n]
        IN  /\ (e.path = "update") <=> (Matched(e) # None)
            /\ ~e.raised => IF Matched(e) # None
                            THEN UpdatedInPlace(e) ELSE InsertedOne(e)
            /\ e.raised => e.after = e.before

----------------------------------------------------------------------------
(* C18 as claimed: when upsert updates an existing row, a field that is     *)
(* empty in the incoming record (doi = "", an empty abstract) leaves the    *)
(* existing non-empty stored value unchanged.                               *)

\* the matched row as the call left it
RowAfter(e) == CHOOSE r \in e.after : r.id = Matched(e).id

C18_EmptyFieldsKeepStored ==
    \A n \in DOMAIN upsert_log :
        LET e == upsert_log[n]
        IN  (e.path = "update" /\ ~e.raised) =>
                \A f \in DOMAIN e.record :
                    (~Truthy(e.record[f]) /\ Truthy(Matched(e)[f]))
                        => RowAfter(e)[f] = Matched(e)[f]

\* what the code does instead: every field the record sets, empty or not,
\* replaces the stored value; columns the record lacks are kept
C18_SetFieldsOverwrite ==
    \A n \in DOMAIN upsert_log :
        LET e == upsert_log[n]
        IN  (e.path = "update" /\ ~e.raised) =>
                \A f \in DOMAIN Matched(e) :
                    RowAfter(e)[f] = IF f \in DOMAIN e.record
                                     THEN e.record[f] ELSE Matched(e)[f]

----------------------------------------------------------------------------
(* C20 as claimed: after any batch of the bulk run, papers_stored is the    *)
(* number of rows inserted and papers_updated the number of rows updated in *)
(* this run; a record whose upsert raises is counted only in papers_failed, *)
(* so each processed record adds to exactly one of the three counters.      *)

\* the upsert calls of the run that ended as given
Upserts(path, raised) ==
    Cardinality({k \in DOMAIN upsert_log :
                    upsert_log[k].path = path /\ upsert_log[k].raised = raised})

RaisedUpserts == Cardinality({k \in DOMAIN upsert_log : upsert_log[k].raised})

C20_SummaryExact ==
    pc \in {"index", "count", "query", "reported"} =>
        /\ stats.papers_stored = Upserts("insert", FALSE)
        /\ stats.papers_updated = Upserts("update", FALSE)
        /\ stats.papers_failed = RaisedUpserts
        /\ stats.papers_stored + stats.papers_updated + stats.papers_failed
                = Len(upsert_log)

\* what the code keeps: the failed counter is exact, and stored / updated
\* count the pre-check's verdicts of the records handed to upsert, those of
\* failed upserts included
C20_CountedOnPreCheck ==
    pc \in {"index", "count", "query", "reported"} =>
        /\ stats.papers_failed = RaisedUpserts
        /\ stats.papers_stored
                = Cardinality({k \in DOMAIN upsert_log :
                                upsert_log[k].classified = "stored"})
        /\ stats.papers_updated
                = Cardinality({k \in DOMAIN upsert_log :
                                upsert_log[k].classified = "updated"})
        /\ stats.papers_stored + stats.papers_updated
                = Cardinality({k \in DOMAIN upsert_log :
                                upsert_log[k].path # "none"})

----------------------------------------------------------------------------
(* C19: a run may be interrupted at any point, between batches or in the    *)
(* middle of one, and a new run with an empty processed set started on the  *)
(* same store.  After any such sequence of runs the store holds at most one *)
(* row per pmid, every record upserted before an interruption is still     *)
(* present, and a record the store already holds is updated by the new run, *)
(* never inserted a second time.                                            *)

OneRowPerKey == \A r1, r2 \in papers : r1.pmid = r2.pmid => r1 = r2

UpsertedStillPresent ==
    \A k \in DOMAIN upsert_log :
        ~upsert_log[k].raised =>
            \E r \in papers : r.pmid = upsert_log[k].record.pmid

\* the upsert store_papers is about to make fits the table
NextUpsertFits ==
    (pc = "store" /\ paper_pos <= Len(Batch) /\ Batch[paper_pos] \notin processed_pmids)
        => LET res == upsert(papers, PaperCreateOf(Batch[paper_pos]))
           IN  /\ ~res.raised
               /\ Cardinality({r \in res.papers : r.pmid = Batch[paper_pos]}) = 1

C19_RestartedRunSafe ==
    /\ OneRowPerKey
    /\ UpsertedStillPresent
    /\ NextUpsertFits

\* a run stored a record, was interrupted in the middle of the batch, and
\* the new run is about to store the same record again
C19_Witness ==
    /\ pc = "store"
    /\ paper_pos <= Len(Batch)
    /\ processed_pmids = {}
    /\ stats.papers_stored = 0
    /\ \E k \in DOMAIN upsert_log :
        /\ upsert_log[k].path = "insert"
        /\ ~upsert_log[k].raised
        /\ upsert_log[k].record.pmid = Batch[paper_pos]

----------------------------------------------------------------------------
(* C21 as claimed: an exception while upserting one record increments the   *)
(* failed counter and does not abort the batch: every later record of the   *)
(* batch is still attempted (handed to the repository), and the records     *)
(* upserted earlier in the batch remain in the store.                       *)

\* every record the loop came to was handed to upsert
LaterRecordsAttempted ==
    \A k \in DOMAIN upsert_log : upsert_log[k].path \in {"insert", "update"}

\* the rows of the records whose upsert returned are in the table
EarlierRecordsRemain ==
    \A k \in DOMAIN upsert_log :
        ~upsert_log[k].raised =>
            \E r \in papers :
                \A f \in DOMAIN upsert_log[k].record : r[f] = upsert_log[k].record[f]

\* each exception raised in the loop has been counted once
FailuresCounted ==
    stats # <<>> => stats.papers_failed = RaisedUpserts

C21_FailureDoesNotAbortBatch ==
    /\ LaterRecordsAttempted
    /\ EarlierRecordsRemain
    /\ FailuresCounted

\* what the code keeps: the loop goes on to the end of the batch, counts
\* every exception as failed and rolls nothing back
C21_LoopGoesOn ==
    /\ EarlierRecordsRemain
    /\ FailuresCounted

----------------------------------------------------------------------------
(* C22 as claimed: when a fetched record's publication date is missing or   *)
(* matches none of the accepted formats, the stored record's date is marked *)
(* unresolved; it is never set to the current wall-clock time.              *)

NoFormatMatches ==
    published_date = <<>>
        \/ \A k \in DOMAIN DateFormats : ~StrptimeMatches(published_date, DateFormats[k])

C22_UnresolvedDateMarked ==
    (pc = "dates_done" /\ NoFormatMatches) =>
        /\ pub_date = Unresolved
        /\ pub_date # WallClockNow

\* what the code does: a date that matches a format is parsed by the first
\* such format, every other date becomes the current time
C22_DefaultsToNow ==
    pc = "dates_done" =>
        IF NoFormatMatches
        THEN pub_date = WallClockNow
        ELSE /\ pub_date.kind = "datetime"
             /\ pub_date.value = published_date
             /\ StrptimeMatches(published_date, DateFormats[pub_date.format])

----------------------------------------------------------------------------
(* C23 as claimed: a structurally valid ESearch response with no            *)
(* identifiers (missing or empty IdList) yields an empty list without       *)
(* error, while a response whose top-level envelope cannot be parsed never  *)
(* yields a list and reaches the caller as a parse error (PubMedParseError). *)

ResponseArrived == pc = "searched" /\ esearch_response.http = "ok"

NoIdentifiers(x) == ~x.has_id_list \/ x.ids = <<>>

EmptyResultIsValid ==
    (ResponseArrived /\ ValidEnvelope(esearch_response.xml_data)
        /\ NoIdentifiers(esearch_response.xml_data))
            => search_result = Returned(<<>>)

BadEnvelopeIsParseError ==
    (ResponseArrived /\ ~ValidEnvelope(esearch_response.xml_data))
        => search_result = Raised("PubMedParseError")

C23_EsearchClassification ==
    /\ EmptyResultIsValid
    /\ BadEnvelopeIsParseError

\* what the code does with a document that is not an ESearch result: the
\* parse error is wrapped into the generic PubMedAPIException, and a
\* well-formed document with another root is searched for an IdList
C23_ParseErrorWrapped ==
    /\ EmptyResultIsValid
    /\ (ResponseArrived /\ ~esearch_response.xml_data.wellformed)
            => search_result = Raised("PubMedAPIException")
    /\ (ResponseArrived /\ esearch_response.xml_data.wellformed)
            => search_result.kind = "returned"

----------------------------------------------------------------------------
(* C24: fetch_papers_by_ids on n identifiers issues exactly ceil(n / 200)   *)
(* fetch requests (none when n = 0), each carrying at most 200 identifiers; *)
(* every identifier is sent in exactly one request, in input order, and the *)
(* returned list is the concatenation of the sub-batch results in sub-batch *)
(* order.                                                                   *)

CeilDiv(n, d) == (n + d - 1) \div d

RECURSIVE Concat(_, _)
Concat(reqs, field) ==
    IF reqs = <<>> THEN <<>>
    ELSE Concat(SubSeq(reqs, 1, Len(reqs) - 1), field) \o reqs[Len(reqs)][field]

C24_SubBatchesPartitionIds ==
    /\ \A k \in DOMAIN efetch_requests :
            /\ Len(efetch_requests[k].ids) <= EfetchBatchSize
            /\ efetch_requests[k].ids # <<>>
    \* the requests made so far carry a prefix of the input, each identifier once
    /\ Concat(efetch_requests, "ids") = SubSeq(pmids, 1, Len(Concat(efetch_requests, "ids")))
    /\ all_papers = Concat(efetch_requests, "papers")
    /\ pc = "fetched_by_ids" =>
            /\ Len(efetch_requests) = CeilDiv(Len(pmids), EfetchBatchSize)
            /\ Concat(efetch_requests, "ids") = pmids

\* 401 identifiers: two full requests and a third with the last identifier
C24_Witness ==
    /\ pc = "fetched_by_ids"
    /\ Len(pmids) = 2 * EfetchBatchSize + 1
    /\ Len(efetch_requests) = 3
    /\ efetch_requests[3].ids = <<2 * EfetchBatchSize + 1>>
    /\ Len(all_papers) < Len(pmids)

----------------------------------------------------------------------------
(* C25: in the full-text download a 404 or 403 response is a normal         *)
(* "not available" outcome: the attempt that receives it is the last one,   *)
(* _download_with_retry returns False without sleeping for a retry and      *)
(* without raising (after exactly one HTTP attempt when the first response  *)
(* is a 404 or 403), and download_pdf returns None.                         *)

\* attempt k received a 404 or 403
PermanentlyUnavailable(k) == download_attempts[k] \in {"404", "403"}

C25_NotFoundIsNotRetried ==
    \A k \in DOMAIN download_attempts :
        PermanentlyUnavailable(k) =>
            /\ k = Len(download_attempts)
            /\ Len(retry_sleeps) = k - 1
            /\ download_result = "False"
            /\ pc \in {"downloaded", "download_pdf_returned"}
            /\ pc = "download_pdf_returned" => pdf_result = "None"

\* the first response is a 403: one attempt, no sleep, None
C25_Witness ==
    /\ pc = "download_pdf_returned"
    /\ max_retries = MaxRetries
    /\ download_attempts = <<"403">>
    /\ retry_sleeps = <<>>
    /\ pdf_result = "None"

----------------------------------------------------------------------------
(* C26 as claimed: in the full-text download every network-class or         *)
(* 5xx-class failure is retryable: a timeout, a connection-level error or a *)
(* 5xx response causes another attempt, up to max_retries attempts in       *)
(* total, before False is returned.                                         *)

NetworkOrServerFailure(k) ==
    download_attempts[k] \in {"timeout", "connection_error", "5xx"}

C26_NetworkFailuresRetried ==
    /\ Len(download_attempts) <= max_retries
    /\ (pc \in {"downloaded", "download_pdf_returned"}
            /\ download_attempts # <<>>
            /\ NetworkOrServerFailure(Len(download_attempts)))
        => Len(download_attempts) = max_retries

\* what the code keeps: a timeout or a 5xx response is retried until
\* max_retries attempts are used, with a sleep before each retry
C26_TimeoutAndStatusRetried ==
    /\ Len(download_attempts) <= max_retries
    /\ (pc \in {"downloaded", "download_pdf_returned"}
            /\ download_attempts # <<>>
            /\ download_attempts[Len(download_attempts)] \in {"timeout", "5xx"})
        => /\ Len(download_attempts) = max_retries
           /\ download_result = "False"
    /\ \A k \in DOMAIN retry_sleeps : retry_sleeps[k] = k

----------------------------------------------------------------------------
(* C27: in main the current total handed to each window and compared with   *)
(* the target always equals initial_total (read once at run start) plus the *)
(* sum of stored over all batches completed so far in this run, and the     *)
(* loop over windows stops as soon as that value is >= target_count.        *)

\* stored, summed over the completed batches of the months before m
StoredBefore(m) ==
    LET earlier == SelectSeq(fetch_log, LAMBDA e : e.month < m)
    IN  SumStored(earlier, Len(earlier))

StoredSoFar == SumStored(fetch_log, Len(fetch_log))

C27_CurrentTotalTracksStored ==
    \* inside process_month: the argument and the value the loop test uses
    /\ pc \in {"while", "fetch", "ret"} =>
            /\ current_total = initial_total + StoredBefore(idx)
            /\ current_total + stored_this_month = initial_total + StoredSoFar
    \* in main between two windows: the value compared with the target
    /\ pc \in {"for", "done"} => stored_total = StoredSoFar
    /\ pc = "for" => initial_total + StoredSoFar < target_count
    \* no window is entered once the value has reached the target
    /\ \A m \in {fetch_log[i].month : i \in DOMAIN fetch_log} :
            initial_total + StoredBefore(m) < target_count

\* the second window is handed a total that includes the first window's
\* records, and the run ends when the target is reached
C27_Witness ==
    /\ pc = "done"
    /\ idx = 2
    /\ initial_total > 0
    /\ StoredBefore(2) > 0
    /\ current_total = initial_total + StoredBefore(2)
    /\ initial_total + stored_total >= target_count

----------------------------------------------------------------------------
(* C28 as claimed: BulkArxivIngestion.run_ingestion pages through each date *)
(* window with bounded batches until the window is exhausted or the global  *)
(* target is reached, and only then moves to the next window; no record of  *)
(* a window is left unrequested merely because the window holds more than   *)
(* batch_size records.                                                      *)

\* the records of window m that some request of the run covered
Requested(m) ==
    {k \in 1 .. available[m] :
        \E i \in DOMAIN fetch_log :
            /\ fetch_log[i].month = m
            /\ k > fetch_log[i].start
            /\ k <= fetch_log[i].start + fetch_log[i].max_results}

\* the loop has left window m for the next one without reaching the target
WindowLeft(m) == m < idx /\ pc \in {"arxiv_while", "arxiv_index"}

C28_WindowsPagedUntilExhausted ==
    \A m \in DOMAIN available :
        (WindowLeft(m) /\ NoErrorIn(m)) => Requested(m) = 1 .. available[m]

\* what the code does: every window gets one request of batch_size records
\* from offset 0, whatever the window holds
C28_OneRequestPerWindow ==
    /\ \A m \in DOMAIN available : Len(RoundsOf(m)) <= 1
    /\ \A i \in DOMAIN fetch_log :
            fetch_log[i].start = 0 /\ fetch_log[i].max_results = batch_size

----------------------------------------------------------------------------
(* C29: when fetch_and_process_papers raises inside process_month, the      *)
(* exception is caught, start_index increases by exactly one full           *)
(* batch_size (not batch_limit and not the fetched count), the fetched and  *)
(* stored counters of the window are unchanged, and the loop continues with *)
(* the same window instead of aborting it or the run.                       *)

\* the step in which a call of fetch_and_process_papers raises
FetchRaisesStep ==
    /\ Len(fetch_log') = Len(fetch_log) + 1
    /\ fetch_log'[Len(fetch_log')].raised

C29_ErrorSkipsOneBatch ==
    [][FetchRaisesStep =>
        /\ start_index' = start_index + batch_size
        /\ fetched_this_month' = fetched_this_month
        /\ stored_this_month' = stored_this_month
        /\ fetched_total' = fetched_total /\ stored_total' = stored_total
        /\ idx' = idx
        /\ pc' = "while"]_vars

\* a request clipped to less than batch_size raised at an offset above 0,
\* and the next request of the same window starts batch_size further on
C29_Witness ==
    \E i \in 1 .. Len(fetch_log) - 1 :
        /\ fetch_log[i].raised
        /\ fetch_log[i].start > 0
        /\ fetch_log[i].max_results < batch_size
        /\ fetch_log[i + 1].month = fetch_log[i].month
        /\ fetch_log[i + 1].start = fetch_log[i].start + batch_size

----------------------------------------------------------------------------
(* C30: in process_month the cursor starts at 0 for every window and, in    *)
(* the absence of errors, the start offset of each fetch equals the sum of  *)
(* the fetched counts returned by the previous fetches of that window.      *)

RECURSIVE SumFetched(_, _)
SumFetched(log, n) == IF n = 0 THEN 0 ELSE log[n].fetched + SumFetched(log, n - 1)

C30_OffsetIsSumOfFetched ==
    /\ \A m \in 1 .. Len(month_ranges) :
        NoErrorIn(m) =>
            \A j \in DOMAIN RoundsOf(m) :
                RoundsOf(m)[j].start = SumFetched(RoundsOf(m), j - 1)
    \* the request in flight
    /\ (pc = "fetch" /\ NoErrorIn(idx)) =>
            start_index = SumFetched(RoundsOf(idx), Len(RoundsOf(idx)))

\* the second window starts again at 0 after the first window's cursor had
\* moved, and its second fetch starts where its first one ended
C30_Witness ==
    /\ pc = "fetch" /\ idx = 2
    /\ NoErrorIn(1) /\ NoErrorIn(2)
    /\ Len(RoundsOf(1)) >= 2
    /\ Len(RoundsOf(2)) = 1
    /\ RoundsOf(2)[1].start = 0
    /\ start_index = RoundsOf(2)[1].fetched
    /\ start_index > 0

----------------------------------------------------------------------------
(* C31: _last_request_time is set when a request of search_papers,          *)
(* _fetch_batch or get_summaries is issued, whether the request then        *)
(* succeeds or fails: it is the time of the latest request whatever that    *)
(* request's status, and the request that follows a failed one is issued    *)
(* at least rate_limit_delay after the failed one.                          *)

C31_FailedRequestStillSpaces ==
    /\ requests # <<>> => _last_request_time = requests[Len(requests)].at
    /\ \A i \in 1 .. Len(requests) - 1 :
        requests[i].status = "raised" =>
            requests[i + 1].at - requests[i].at >= rate_limit_delay

\* a request failed, and the call that arrived right after it was suspended
\* for the whole of rate_limit_delay
C31_Witness ==
    \E i \in 1 .. Len(requests) - 1 :
        /\ requests[i].status = "raised"
        /\ requests[i + 1].arrived = requests[i].at
        /\ requests[i + 1].sleep_time = rate_limit_delay
        /\ requests[i + 1].at = requests[i].at + rate_limit_delay

----------------------------------------------------------------------------
(* C32 as claimed: the date windows of BulkArxivIngestion.run_ingestion are *)
(* processed most-recent-first and form a contiguous, non-overlapping       *)
(* sequence: no calendar day belongs to two windows, and no window extends  *)
(* before the start of the requested 5-year range.                          *)

\* the days from_date .. to_date a window asks for
DaysOf(w) == w.from_date .. w.to_date

MostRecentFirst ==
    \A i \in 1 .. Len(date_windows) - 1 :
        date_windows[i + 1].to_date <= date_windows[i].to_date

C32_WindowsDisjointWithinRange ==
    /\ MostRecentFirst
    /\ \A i, j \in DOMAIN date_windows :
        i # j => DaysOf(date_windows[i]) \cap DaysOf(date_windows[j]) = {}
    /\ \A i \in 1 .. Len(date_windows) - 1 :
        date_windows[i + 1].to_date = date_windows[i].from_date - 1
    /\ \A i \in DOMAIN date_windows : date_windows[i].from_date >= start_date

\* what holds: the windows go back from today in steps of 30 days, each
\* ending on the day the one before starts on, and only a window that
\* starts fewer than 30 days before start_date reaches back beyond it
C32_WindowsAsGenerated ==
    /\ MostRecentFirst
    /\ \A i \in DOMAIN date_windows :
        /\ date_windows[i].to_date = end_date - (i - 1) * WindowDays
        /\ date_windows[i].from_date = date_windows[i].to_date - WindowDays
        /\ date_windows[i].to_date > start_date
        /\ date_windows[i].from_date > start_date - WindowDays
    /\ \A i \in 1 .. Len(date_windows) - 1 :
        date_windows[i + 1].to_date = date_windows[i].from_date

----------------------------------------------------------------------------
(* C33 as claimed: in BulkPaperIngestion.run_ingestion the number of        *)
(* records requested from the source for a query never exceeds              *)
(* target_count minus the stored total at the time of the request, for      *)
(* every query of the run and not only the first.                           *)

\* a step in which fetch_papers_batch is called
FetchBatchStep == Len(fetch_calls') = Len(fetch_calls) + 1

C33_RequestWithinRemainingNeed ==
    [][FetchBatchStep =>
        fetch_calls'[Len(fetch_calls')].max_results <= target_count - get_count(papers)]_vars

\* what holds: every request is bounded by ten batches and by the need
\* computed once, before the first query
C33_RequestWithinInitialNeed ==
    \A i \in DOMAIN fetch_calls :
        /\ fetch_calls[i].max_results <= papers_needed
        /\ fetch_calls[i].max_results <= batch_size * 10

----------------------------------------------------------------------------
(* C34 as claimed: for a record whose PubDate carries Year, Month and Day,  *)
(* or Year and Month, the string built by _extract_pub_date is accepted by  *)
(* the highest-priority matching format of the store step's list, so the    *)
(* stored date carries the record's own year and month, whether the month   *)
(* is given as a number or as an abbreviated name.                          *)

\* the PubDate has a Year and a Month with text, and a Day with text or none
StructuredPubDate ==
    /\ ~pub_date_elem.is_none
    /\ pub_date_elem.Year = "Y"
    /\ pub_date_elem.Month \in {"m", "b"}
    /\ pub_date_elem.Day \in {"absent", "m", "d"}

\* the stored date was parsed from the record's string by format k
StoredFrom(k) ==
    /\ pub_date.kind = "datetime" /\ pub_date.format = k
    /\ pub_date.value = published_date
    /\ StrptimeMatches(published_date, DateFormats[k])
    /\ \A i \in 1 .. k - 1 : ~StrptimeMatches(published_date, DateFormats[i])

C34_StructuredDateAccepted ==
    (pc = "dates_done" /\ StructuredPubDate) =>
        \E k \in DOMAIN DateFormats : StoredFrom(k)

\* what holds: a numeric month is accepted as a full date or as year and
\* month; a month given by name yields "Y-b" or "Y-b-d", which no format
\* accepts, and the stored date is the time of the run
C34_OnlyNumericMonthAccepted ==
    (pc = "dates_done" /\ StructuredPubDate) =>
        IF pub_date_elem.Month = "m"
        THEN IF pub_date_elem.Day = "absent" THEN StoredFrom(2) ELSE StoredFrom(1)
        ELSE pub_date = WallClockNow

----------------------------------------------------------------------------
(* C35 as claimed: after _download_with_retry returns False no file is left *)
(* at the target path, so a later download_pdf call without force_download  *)
(* never returns, as a cached PDF, a file that was only partially written   *)
(* by an earlier failed attempt.                                            *)

\* download_pdf returned the file found at the path, without a download
ReturnedCached ==
    pc = "download_pdf_returned" /\ pdf_result = "pdf_path" /\ download_result = ""

C35_NoPartialFileServed ==
    /\ (pc \in {"downloaded", "download_pdf_returned"} /\ download_result = "False")
            => pdf_file = "absent"
    /\ ReturnedCached => pdf_file = "complete"

\* what holds: the file is removed only when the loop makes no attempt at
\* all; a call that returns the path after a download of its own returns a
\* completely written file
C35_CleanupOnlyWithoutAttempts ==
    /\ (pc \in {"downloaded", "download_pdf_returned"} /\ download_result = "False"
            /\ max_retries = 0) => pdf_file = "absent"
    /\ (pc \in {"downloaded", "download_pdf_returned"} /\ download_result = "True")
            => pdf_file = "complete"

----------------------------------------------------------------------------
(* C36: fetch_papers_by_ids is all-or-nothing across sub-batches: when the  *)
(* request for a sub-batch raises, the call raises, no request for a later  *)
(* sub-batch is issued and none of the records fetched before are returned; *)
(* a list is returned only when every sub-batch was fetched; and no fetch   *)
(* request is issued when the search returned no identifiers.               *)

C36_AllOrNothing ==
    /\ \A k \in DOMAIN efetch_requests :
        efetch_requests[k].raised =>
            /\ k = Len(efetch_requests)
            /\ pc = "fetch_by_ids_raised"
            /\ fetch_result.kind = "raised"
            /\ fetch_result.value = <<>>
    /\ fetch_result.kind = "returned" =>
            /\ \A k \in DOMAIN efetch_requests : ~efetch_requests[k].raised
            /\ Len(efetch_requests) = CeilDiv(Len(pmids), EfetchBatchSize)
            /\ fetch_result.value = all_papers
    /\ pmids = <<>> =>
            /\ efetch_requests = <<>>
            /\ pc # "fetch_by_ids" => fetch_result = Returned(<<>>)

\* the second sub-batch raised after the first had delivered its papers:
\* the call raised and a third sub-batch, though due, was never requested
C36_Witness ==
    /\ pc = "fetch_by_ids_raised"
    /\ Len(pmids) > 2 * EfetchBatchSize
    /\ Len(efetch_requests) = 2
    /\ efetch_requests[2].raised
    /\ Len(all_papers) = EfetchBatchSize
    /\ fetch_result = Raised("PubMedAPITimeoutError")

----------------------------------------------------------------------------
(* C37 as claimed: for every RetryConfig, including max_attempts <= 0, a    *)
(* with_retry-wrapped call invokes the operation at least once and ends     *)
(* either by returning the operation's result or by raising an exception    *)
(* that the operation itself raised.                                        *)

\* the wrapped call is over
WrapperEnded == pc \in {"returned", "raised"}

\* the wrapper returned the result of a call of the operation, or raised an
\* exception that a call of the operation raised
EndedAsOperationDid ==
    \/ outcome.kind = "returned" /\ outcome.call = calls
    \/ outcome.kind = "raised" /\ outcome.exc.call \in 1 .. calls

C37_AlwaysInvokedOnce ==
    WrapperEnded => (calls >= 1 /\ EndedAsOperationDid)

\* what holds: with max_attempts >= 1 the operation is called at least once
\* and the wrapper ends as the operation did, or with the OverflowError of
\* get_delay; with max_attempts = 0 the operation is never called and the
\* wrapper raises TypeError
C37_InvokedWhenAttemptsPositive ==
    WrapperEnded =>
        IF max_attempts >= 1
        THEN /\ calls >= 1
             /\ EndedAsOperationDid \/ outcome.exc.kind = "OverflowError"
        ELSE /\ calls = 0
             /\ outcome = [kind |-> "raised", exc |-> [kind |-> "TypeError", call |-> 0]]

----------------------------------------------------------------------------
(* C38 as claimed: the indexing loop at the end of                          *)
(* BulkArxivIngestion.run_ingestion terminates, and it exits, reporting     *)
(* that all papers are indexed, only in a state where no unindexed paper    *)
(* remains in the store.                                                    *)

\* the loop was left with the report "All papers indexed!"
ReportedAllIndexed == pc = "arxiv_all_indexed"

C38_ExitsOnlyWhenAllIndexed == ReportedAllIndexed => unindexed = 0

\* what holds: the loop ends after its first pass, which indexes nothing
C38_LoopEndsAfterOnePass ==
    /\ batch_num <= 1
    /\ total_indexed = 0
    /\ ReportedAllIndexed => batch_num = 1

----------------------------------------------------------------------------
(* C39: each call of SearchCacheClient.get_cached_search or                 *)
(* store_search_result makes exactly one attempt and never raises: every    *)
(* Redis error, ConnectionError and TimeoutError included, is caught inside *)
(* the wrapped body and turned into None / False, so the wrapper of         *)
(* with_retry(REDIS_RETRY) never performs a second attempt.                 *)

C39_CacheCallsNeverRetried ==
    /\ pc = "cache_try" => cache_attempts = 0
    /\ \A k \in DOMAIN cache_calls :
        /\ cache_calls[k].attempts = 1
        /\ cache_calls[k].result.kind = "returned"
        /\ cache_calls[k].first_reply \in RedisErrors =>
                cache_calls[k].result.value =
                    IF cache_calls[k].op.name = "get_cached_search" THEN "None" ELSE "False"

\* redis.get raised ConnectionError and the lookup returned None after one
\* attempt; then redis.set raised TimeoutError and the store call returned
\* False after one attempt
C39_Witness ==
    /\ Len(cache_calls) = 2
    /\ cache_calls[1].op.name = "get_cached_search"
    /\ cache_calls[1].first_reply = "ConnectionError"
    /\ cache_calls[1].result = Returned("None")
    /\ cache_calls[1].attempts = 1
    /\ cache_calls[2].op = [name |-> "store_search_result", total |-> 1]
    /\ cache_calls[2].first_reply = "TimeoutError"
    /\ cache_calls[2].result = Returned("False")
    /\ cache_calls[2].attempts = 1

====
